---- MODULE Spec2Model ----
(***************************************************************************)
(* Parallel task execution of ralphy.sh: run_parallel_tasks (the batch     *)
(* scheduler, the per-group integration step and the final                 *)
(* reconciliation), run_parallel_agent (one job process per task, each in  *)
(* its own worktree) and the markdown / YAML task sources they mark.       *)
(*                                                                         *)
(* The script runs under `set -euo pipefail` (ralphy.sh:9); two            *)
(* consequences are part of the model:                                     *)
(*   - a job process whose agent command exits non-zero is terminated by   *)
(*     errexit while its status file still reads "running";                *)
(*   - the pipeline `echo "$result" | grep -q ...` of check_for_errors     *)
(*     has a non-zero status when echo is killed by SIGPIPE, which happens *)
(*     when grep -q exits at its first match and more output than the pipe *)
(*     holds is still to be written;                                       *)
(*   - the pipeline `sed ... "$log_file" | head -20` of the results loop   *)
(*     has a non-zero status when sed is killed by SIGPIPE, which happens  *)
(*     when the log of a failed job is larger than the pipe holds, and     *)
(*     errexit then ends run_parallel_tasks; the EXIT trap runs cleanup.   *)
(***************************************************************************)
EXTENDS Integers, Sequences, FiniteSets, TLC

(* ---------------------------- bounds ----------------------------------- *)
MaxTasks == 3          \* lines in the task file
MaxParallel == 2       \* largest --max-parallel value tried
MaxGroups == 2         \* distinct parallel_group values in a YAML file
MaxIter == 2           \* the non-zero --max-iterations value tried
MAX_RETRIES == 2       \* --max-retries (ralphy.sh:41 defaults it to 3)
MaxFaults == 1         \* failures of the environment in one run
MaxRetries == 3        \* largest maxRetries given to withRetry
MaxAttempt == 3        \* largest attempt number given to calculateBackoffDelay
MaxRetryDelay == 2     \* largest retryDelay and maxDelay, in seconds
JitterSteps == 4       \* Math.random() is drawn from {0/JitterSteps .. (JitterSteps-1)/JitterSteps}
MaxLines == 3          \* lines in the markdown files of a task source, all files together
MaxFiles == 2          \* .md files in the folder of a MarkdownFolderTaskSource
MaxAgents == 11        \* jobs launched in a run, when only their names are followed
MaxWrites == 2         \* writes of the task files while a markdown source's cache is followed
MaxIssues == 2         \* open issues of the repository of a GitHub task source
TicksPerTtl == 3       \* readings of the clock within one CACHE_TTL_MS
MaxTicks == 7          \* ticks of the clock while a GitHub task source is followed
MaxWorktrees == 2      \* agent-N directories under WORKTREE_BASE when cleanup is called twice

(* ---------------------------- names ------------------------------------ *)
NoBranch == <<"none", 0>>
OrigBase == <<"base", 0>>
AgentBranch(n) == <<"agent", n>>
IntegrationBranch(g) == <<"integration-group", g>>

VARIABLES
  PRD_SOURCE, MAX_PARALLEL, MAX_ITERATIONS, CREATE_PR,   \* configuration
  prd,                       \* the task file: lines [title, group, completed, pre]
  pc,                        \* position of run_parallel_tasks
  all_tasks, groups, gi, tasks,  \* pending titles, group list, current group index, its tasks
  batch_num, batch_start, batch_end, li,
  iteration, parallel_pids,
  BASE_BRANCH, ORIGINAL_BASE_BRANCH,
  completed_branches, group_completed_branches, integration_branches,
  mi, merge_failed, current_head, merge_failed_list, still_failed,
  jobs,                      \* one record per launched job, indexed by agent number
  branches, head,            \* git: branch -> commits; branch of the primary checkout
  merging, unmerged,         \* branch of a merge in progress; are there unmerged paths
  worktree_base,             \* does the WORKTREE_BASE directory exist
  faults,                    \* failures of the environment so far
  batchLog, integLog, reconLog, \* history: batches launched, integration outcomes, results read
  mergeLog,                     \* history: <<source, target>> of every merge that succeeded
  finalLog,                     \* history: merge attempts and resolution passes of the final reconciliation
  cw,                           \* worktree cleanup called twice: directories, calls made, state after the first
  rt,                           \* one call of withRetry: options, loop position, invocations, outcome
  bo,                           \* one call of calculateBackoffDelay: arguments and result
  md,                           \* a markdown task source: files, cache, markComplete calls, what was read
  ig,                           \* integration steps of one run: the primary checkout, the base branches, loop position
  pt,                           \* the processes of one batch around an interrupt: job shells, agents, worktrees
  gh,                           \* a GitHub task source: the clock, the service's issues, the cache, what was read
  nm                            \* the launches of a run: agent numbers, branch names, worktree paths

cfgVars == <<PRD_SOURCE, MAX_PARALLEL, MAX_ITERATIONS, CREATE_PR>>
loopVars == <<all_tasks, groups, gi, tasks, batch_num, batch_start, batch_end, li, iteration, parallel_pids>>
branchVars == <<BASE_BRANCH, ORIGINAL_BASE_BRANCH, completed_branches,
                group_completed_branches, integration_branches>>
mergeVars == <<mi, merge_failed, current_head, merge_failed_list, still_failed>>
gitVars == <<branches, head, merging, unmerged>>
histVars == <<batchLog, integLog, reconLog, mergeLog, finalLog>>
\* state of the operations that are taken on their own
libVars == <<cw, rt, bo, md, ig, pt, gh, nm>>
vars == <<cfgVars, prd, pc, loopVars, branchVars, mergeVars, jobs, gitVars,
          worktree_base, faults, histVars, libVars>>

(* ------------------------- sequences helpers --------------------------- *)
IsPrefix(p, s) == Len(p) <= Len(s) /\ SubSeq(s, 1, Len(p)) = p

Range(s) == {s[i] : i \in DOMAIN s}

Min(S) == CHOOSE x \in S : \A y \in S : x <= y

RECURSIVE SortedSeq(_)
SortedSeq(S) == IF S = {} THEN <<>> ELSE <<Min(S)>> \o SortedSeq(S \ {Min(S)})

(* --------------------------- task sources ------------------------------ *)
\* get_tasks_markdown / get_tasks_yaml: titles of the lines not yet completed
UncheckedTitles(file) ==
  LET open == SelectSeq(file, LAMBDA l : ~l.completed)
  IN  [i \in DOMAIN open |-> open[i].title]

get_tasks_markdown(file) == UncheckedTitles(file)

get_tasks_yaml(file) == UncheckedTitles(file)

get_all_tasks(file) ==
  IF PRD_SOURCE = "markdown" THEN get_tasks_markdown(file) ELSE get_tasks_yaml(file)

\* yq ... select(.completed != true and (.parallel_group // 0) == $group) | .title
get_tasks_in_group_yaml(file, group) ==
  LET open == SelectSeq(file, LAMBDA l : ~l.completed /\ l.group = group)
  IN  [i \in DOMAIN open |-> open[i].title]

\* variant: the groups in descending order (sort -rn)
PendingGroupsDescending(file) ==
  LET s == SortedSeq({file[i].group : i \in {k \in DOMAIN file : ~file[k].completed}})
  IN  [i \in 1..Len(s) |-> s[Len(s) + 1 - i]]

\* yq ... select(.completed != true) | (.parallel_group // 0)  | sort -n | uniq
PendingGroups(file) == SortedSeq({file[i].group : i \in {k \in DOMAIN file : ~file[k].completed}})

\* sed "s/^- \[ \] ${escaped_task}/- [x] ${escaped_task}/": the pattern is
\* anchored at the start of the line only, so every unchecked line whose
\* title begins with the task's title is rewritten
MarkPrefixMatches(task, file) ==
  [i \in DOMAIN file |->
     IF ~file[i].completed /\ IsPrefix(task, file[i].title)
       THEN [file[i] EXCEPT !.completed = TRUE] ELSE file[i]]

mark_task_complete_markdown(task, file) == MarkPrefixMatches(task, file)

\* variant: completed is set on every task, to whether its title is the task's
MarkOnlyThis(task, file) ==
  [i \in DOMAIN file |-> [file[i] EXCEPT !.completed = (file[i].title = task)]]

\* yq -i "(.tasks[] | select(.title == \"$task\")).completed = true"
mark_task_complete_yaml(task, file) ==
  [i \in DOMAIN file |->
     IF file[i].title = task THEN [file[i] EXCEPT !.completed = TRUE] ELSE file[i]]

mark_task_complete(task, file) ==
  IF PRD_SOURCE = "markdown" THEN mark_task_complete_markdown(task, file)
  ELSE mark_task_complete_yaml(task, file)

count_completed(file) == Cardinality({i \in DOMAIN file : file[i].completed})

(* ------------------------------ git ------------------------------------ *)
Exists(b) == b \in DOMAIN branches

\* git rev-list --count base..HEAD in the job's worktree
CommitCount(b, base) ==
  IF Exists(b) /\ Exists(base) THEN Cardinality(branches[b] \ branches[base]) ELSE 0

\* a merge can conflict only when both sides carry commits the other lacks
CanConflict(target, source) ==
  /\ branches[source] \ branches[target] # {}
  /\ branches[target] \ branches[source] # {}

\* git merge --no-edit: it merges, or stops on a conflict (leaving the merge
\* in progress), or refuses to start (local changes would be overwritten)
MergeOutcomes(target, source) ==
  {"merged"} \cup (IF CanConflict(target, source) THEN {"conflict"} ELSE {})
             \cup (IF faults < MaxFaults THEN {"refused"} ELSE {})

\* the environment may fail in the ways of F while the run's budget lasts
OrFail(F) == {"ok"} \cup (IF faults < MaxFaults THEN F ELSE {})

Spend(outcome) == faults' = IF outcome \in {"ok", "merged", "conflict"} THEN faults ELSE faults + 1

Merged(bs, target, source) == [bs EXCEPT ![target] = @ \cup bs[source]]

AddBranch(bs, b, content) == [x \in DOMAIN bs \cup {b} |-> IF x = b THEN content ELSE bs[x]]

\* variant: git branch -D leaves the branch in place
KeepBranch(bs, b) == bs

DelBranch(bs, b) == [x \in DOMAIN bs \ {b} |-> bs[x]]

(* --------------------------- agent output ------------------------------ *)
\* what one agent invocation leaves in $tmpfile
Outputs == {"empty", "ok", "error", "errorLarge"}

\* [[ -n "$result" ]]
NonEmpty(result) == result # "empty"

HasErrorEvent(result) == result \in {"error", "errorLarge"}

\* status of `echo "$result" | grep -q '"type":"error"'` under pipefail:
\* zero only when grep matched and echo was not killed by SIGPIPE
ErrorPipelineSucceeds(result) == result = "error"

\* check_for_errors returns 1 exactly when the pipeline's status is 0
check_for_errors(result) == IF ErrorPipelineSucceeds(result) THEN 1 ELSE 0

(* ----------------------------- inputs ---------------------------------- *)
\* line i is titled <<i>>; line 2 may instead be titled <<1, 2>>, a title
\* that begins with line 1's title
Title(i, long) == IF long /\ i = 2 THEN <<1, 2>> ELSE <<i>>

Monotone(g) ==
  \/ \A i, k \in DOMAIN g : i <= k => g[i] <= g[k]
  \/ \A i, k \in DOMAIN g : i <= k => g[i] >= g[k]

\* parallel_group values of a YAML file of n lines: they run up or down the
\* file and use the values 1..m
GroupColumns(n) ==
  {g \in [1..n -> 1..MaxGroups] :
     Monotone(g) /\ \E m \in 1..MaxGroups : {g[i] : i \in 1..n} = 1..m}

TaskFile(n, long, g, checked) ==
  [i \in 1..n |-> [title |-> Title(i, long), group |-> g[i],
                   completed |-> (checked /\ i = n), pre |-> (checked /\ i = n)]]

\* task files: distinct titles; a markdown file has no groups; only the last
\* line of a file may be checked off before the run
TaskFiles(source) ==
  UNION {IF source = "markdown"
           THEN {TaskFile(n, long, [i \in 1..n |-> 0], checked) :
                   long \in BOOLEAN, checked \in BOOLEAN}
           ELSE {TaskFile(n, FALSE, g, checked) : g \in GroupColumns(n), checked \in BOOLEAN}
                  \cup {TaskFile(n, TRUE, [i \in 1..n |-> 1], checked) : checked \in BOOLEAN}
         : n \in 1..MaxTasks}

Configs ==
  [par : 1..MaxParallel, iter : {0}, pr : {FALSE}]
    \cup [par : {MaxParallel}, iter : {MaxIter}, pr : BOOLEAN]

NewJob(task, group, base) ==
  [task |-> task, group |-> group, batch |-> batch_num, base |-> base,
   pc |-> "start", status |-> "waiting", retry |-> 0, attempts |-> 0,
   result |-> "empty", success |-> FALSE, output |-> NoBranch,
   branch |-> NoBranch, worktree |-> "none", log |-> "none", lost |-> FALSE]

Init ==
  /\ PRD_SOURCE \in {"markdown", "yaml"}
  /\ \E c \in Configs :
       /\ MAX_PARALLEL = c.par
       /\ MAX_ITERATIONS = c.iter
       /\ CREATE_PR = c.pr
  /\ prd \in TaskFiles(PRD_SOURCE)
  /\ pc = "start"
  /\ all_tasks = <<>> /\ groups = <<>> /\ gi = 1 /\ tasks = <<>>
  /\ batch_num = 0 /\ batch_start = 0 /\ batch_end = 0 /\ li = 0
  /\ iteration = 0 /\ parallel_pids = <<>>
  /\ BASE_BRANCH = OrigBase /\ ORIGINAL_BASE_BRANCH = NoBranch
  /\ completed_branches = <<>> /\ group_completed_branches = <<>>
  /\ integration_branches = <<>>
  /\ mi = 0 /\ merge_failed = FALSE /\ current_head = NoBranch
  /\ merge_failed_list = <<>> /\ still_failed = <<>>
  /\ jobs = <<>>
  /\ branches = [b \in {OrigBase} |-> {}]
  /\ head = OrigBase /\ merging = NoBranch /\ unmerged = FALSE
  /\ worktree_base = FALSE
  /\ faults = 0
  /\ batchLog = <<>> /\ integLog = <<>> /\ reconLog = {} /\ mergeLog = {}
  /\ finalLog = <<>>
  /\ cw = [calls |-> 0]
  /\ rt = [pc |-> "none"]
  /\ bo = [called |-> FALSE]
  /\ md = [type |-> "none"]
  /\ ig = [pc |-> "none"]
  /\ pt = [pc |-> "none"] /\ gh = [pc |-> "none"] /\ nm = [iteration |-> 0]

(* ------------------------- run_parallel_agent -------------------------- *)
jobEnv == <<cfgVars, prd, pc, loopVars, branchVars, mergeVars, head, merging, unmerged,
            worktree_base, histVars, libVars>>
jobRest == <<jobEnv, faults>>

Alive(n) == jobs[n].pc \notin {"exited", "dead"}

\* the job's subshell is gone, and its local variables with it; the status
\* file, the output file, the branch and the worktree directory stay
Gone(j, how) ==
  [j EXCEPT !.pc = how, !.retry = 0, !.attempts = 0, !.result = "empty", !.success = FALSE]

\* echo "setting up" > "$status_file"
JobSettingUp(n) ==
  /\ jobs[n].pc = "start"
  /\ jobs' = [jobs EXCEPT ![n].pc = "create", ![n].status = "setting up"]
  /\ UNCHANGED <<jobRest, branches>>

\* variant: a job without a worktree directory reports done
StatusAfterSetupDone(dirExists) == IF dirExists THEN "running" ELSE "done"

\* status written after create_agent_worktree, by [[ ! -d "$worktree_dir" ]]
StatusAfterSetup(dirExists) == IF dirExists THEN "running" ELSE "failed"

\* variant: the agent branch is checked out in the primary working directory
CheckoutInPlace(at, b) == b

\* the branch of the primary checkout after
\* `git worktree add "$worktree_dir" "$branch_name"`, run from ORIGINAL_DIR:
\* the branch is checked out in the new directory only
WorktreeAdd(at, b) == at

\* create_agent_worktree followed by the [[ ! -d "$worktree_dir" ]] test:
\* git branch or git worktree add may fail, and then no directory exists
JobCreateWorktree(n) ==
  /\ jobs[n].pc = "create"
  /\ \E git \in OrFail({"no branch", "no worktree"}) :
       LET b == AgentBranch(n)
           base == jobs[n].base
           made == git # "no branch" /\ Exists(base)
       IN  /\ branches' = IF made THEN AddBranch(branches, b, branches[base]) ELSE branches
           /\ IF made /\ git = "ok"
                THEN jobs' = [jobs EXCEPT ![n].pc = "agent",
                                          ![n].status = StatusAfterSetup(TRUE),
                                          ![n].branch = b, ![n].worktree = "present"]
                ELSE jobs' = [jobs EXCEPT ![n].pc = "return",
                                          ![n].status = StatusAfterSetup(FALSE),
                                          ![n].branch = b, ![n].log = "no worktree"]
           /\ head' = IF made /\ git = "ok" THEN WorktreeAdd(head, b) ELSE head
           /\ Spend(git)
  /\ UNCHANGED <<cfgVars, prd, pc, loopVars, branchVars, mergeVars, merging, unmerged,
                 worktree_base, histVars, libVars>>

\* the job's subshell returns 1 after a failed worktree creation
JobReturn(n) ==
  /\ jobs[n].pc = "return"
  /\ jobs' = [jobs EXCEPT ![n] = Gone(jobs[n], "exited")]
  /\ UNCHANGED <<jobRest, branches>>

\* status written once the retry loop has ended with success: failed when
\* the branch has no commit beyond its base, done otherwise
StatusAfterSuccess(commit_count) == IF commit_count = 0 THEN "failed" ELSE "done"

\* one pass of the retry loop: the agent runs in the worktree, may commit,
\* and leaves its output in $tmpfile.  A non-zero exit of the agent command
\* ends the job process under errexit.  When the loop ends, the status file
\* is written in the same step.
JobAgentAttempt(n) ==
  /\ jobs[n].pc = "agent"
  /\ jobs[n].retry < MAX_RETRIES
  /\ \E result \in Outputs, commits \in BOOLEAN, exit \in OrFail({"non-zero"}) :
       LET b == jobs[n].branch
           bs == IF commits THEN [branches EXCEPT ![b] = @ \cup {n}] ELSE branches
           count == Cardinality(bs[b] \ bs[jobs[n].base])
           j == [jobs[n] EXCEPT !.attempts = @ + 1, !.result = result]
       IN  /\ branches' = bs
           /\ Spend(exit)
           /\ IF exit # "ok"
                THEN jobs' = [jobs EXCEPT ![n] = Gone(jobs[n], "dead")]
              ELSE IF NonEmpty(result) /\ check_for_errors(result) = 0
                THEN jobs' = [jobs EXCEPT ![n] =
                       [j EXCEPT !.success = TRUE,
                                 !.status = StatusAfterSuccess(count),
                                 !.log = IF count = 0 THEN "no commits" ELSE "none",
                                 !.pc = IF count = 0 THEN "cleanup" ELSE "output"]]
              ELSE IF j.retry + 1 < MAX_RETRIES
                THEN jobs' = [jobs EXCEPT ![n] = [j EXCEPT !.retry = @ + 1]]
              ELSE jobs' = [jobs EXCEPT ![n] =
                       [j EXCEPT !.retry = @ + 1, !.status = "failed",
                                 !.log = "retries", !.pc = "cleanup"]]
  /\ UNCHANGED jobEnv

\* echo "$input_tokens $output_tokens $branch_name" > "$output_file"
JobWriteOutput(n) ==
  /\ jobs[n].pc = "output"
  /\ jobs' = [jobs EXCEPT ![n].pc = "cleanup", ![n].output = jobs[n].branch]
  /\ UNCHANGED <<jobRest, branches>>

\* a worktree directory with uncommitted changes: "dirty" has a few changed
\* paths, "dirtyMany" so many that git status is still writing when grep -q
\* has exited
DirtyTrees == {"dirty", "dirtyMany"}

\* `git -C "$dir" status --porcelain | grep -q .` under pipefail: the
\* verdicts it can give on a tree.  git killed by SIGPIPE makes the
\* pipeline's status non-zero, which reads as "not dirty"
DirtyDetections(tree) ==
  IF tree = "dirty" THEN {TRUE} ELSE IF tree = "dirtyMany" THEN {TRUE, FALSE} ELSE {FALSE}

\* cleanup_agent_worktree: a worktree found dirty is left in place, any
\* other is removed with `git worktree remove -f`; the branch is kept
cleanup_agent_worktree(wt, tree, dirty) ==
  IF wt = "none" THEN "none" ELSE IF dirty THEN tree ELSE "none"

\* the call of cleanup_agent_worktree that ends a job; the job process then
\* exits
JobCleanup(n) ==
  /\ jobs[n].pc = "cleanup"
  /\ \E tree \in OrFail(DirtyTrees) : \E dirty \in DirtyDetections(tree) :
       /\ jobs' = [jobs EXCEPT ![n] =
                     [Gone(jobs[n], "exited") EXCEPT
                        !.worktree = cleanup_agent_worktree(jobs[n].worktree, tree, dirty),
                        !.lost = jobs[n].worktree # "none" /\ tree \in DirtyTrees /\ ~dirty]]
       /\ Spend(tree)
  /\ UNCHANGED <<jobEnv, branches>>

JobStep ==
  \E n \in DOMAIN jobs :
    \/ JobSettingUp(n)
    \/ JobCreateWorktree(n)
    \/ JobReturn(n)
    \/ JobAgentAttempt(n)
    \/ JobWriteOutput(n)
    \/ JobCleanup(n)

(* ------------------------- run_parallel_tasks -------------------------- *)
\* variant: the iteration ceiling is never found reached
NoCeiling(launched) == FALSE

\* [[ $MAX_ITERATIONS -gt 0 ]] && [[ $iteration -ge $MAX_ITERATIONS ]]
ReachedMaxIterations(launched) == MAX_ITERATIONS > 0 /\ launched >= MAX_ITERATIONS

schedEnv == <<cfgVars, jobs, libVars>>
schedRest == <<schedEnv, faults>>

\* get_all_tasks, the empty test, WORKTREE_BASE, ORIGINAL_BASE_BRANCH, groups
Start ==
  /\ pc = "start"
  /\ all_tasks' = get_all_tasks(prd)
  /\ IF Len(all_tasks') = 0
       THEN /\ pc' = "returned"
            /\ UNCHANGED <<groups, ORIGINAL_BASE_BRANCH, integration_branches, worktree_base>>
       ELSE /\ pc' = "group"
            /\ worktree_base' = TRUE
            /\ ORIGINAL_BASE_BRANCH' = BASE_BRANCH
            /\ integration_branches' = <<>>
            /\ groups' = IF PRD_SOURCE = "yaml" THEN PendingGroups(prd) ELSE <<0>>
  /\ UNCHANGED <<schedRest, prd, gi, tasks, batch_num, batch_start, batch_end, li,
                 iteration, parallel_pids, BASE_BRANCH, completed_branches,
                 group_completed_branches, mergeVars, gitVars, histVars>>

\* head of `for group in "${groups[@]}"`: the group's pending tasks
GroupStart ==
  /\ pc = "group"
  /\ IF gi > Len(groups)
       THEN /\ pc' = "teardown"
            /\ UNCHANGED <<gi, tasks, batch_start, group_completed_branches>>
       ELSE LET ts == IF PRD_SOURCE = "yaml"
                        THEN get_tasks_in_group_yaml(prd, groups[gi]) ELSE all_tasks
            IN  IF PRD_SOURCE = "yaml" /\ Len(ts) = 0
                  THEN /\ gi' = gi + 1
                       /\ UNCHANGED <<pc, tasks, batch_start, group_completed_branches>>
                  ELSE /\ tasks' = ts
                       /\ group_completed_branches' = <<>>
                       /\ batch_start' = 0
                       /\ pc' = "batch"
                       /\ UNCHANGED gi
  /\ UNCHANGED <<schedRest, prd, all_tasks, groups, batch_num, batch_end, li, iteration,
                 parallel_pids, BASE_BRANCH, ORIGINAL_BASE_BRANCH, completed_branches,
                 integration_branches, mergeVars, gitVars, worktree_base, histVars>>

\* variant: the end index taken as inclusive, one job more per batch
BatchEndInclusive(start, total) ==
  IF start + MAX_PARALLEL + 1 > total THEN total ELSE start + MAX_PARALLEL + 1

\* batch_end=$((batch_start + MAX_PARALLEL)), clipped to the group's size
BatchEnd(start, total) ==
  IF start + MAX_PARALLEL > total THEN total ELSE start + MAX_PARALLEL

\* head of `while [[ $batch_start -lt $total_group_tasks ]]`
BatchBegin ==
  /\ pc = "batch"
  /\ IF batch_start < Len(tasks)
       THEN /\ batch_num' = batch_num + 1
            /\ batch_end' = BatchEnd(batch_start, Len(tasks))
            /\ parallel_pids' = <<>>
            /\ li' = batch_start
            /\ pc' = "launch"
            /\ batchLog' = Append(batchLog, [group |-> gi, start |-> batch_start,
                                             end |-> batch_end', first |-> iteration + 1])
       ELSE /\ pc' = "integrate"
            /\ UNCHANGED <<batch_num, batch_end, parallel_pids, li, batchLog>>
  /\ UNCHANGED <<schedRest, prd, all_tasks, groups, gi, tasks, batch_start, iteration,
                 branchVars, mergeVars, gitVars, worktree_base, integLog, reconLog, mergeLog, finalLog>>

\* one pass of the launch loop: the job's subshell is forked with the
\* environment (BASE_BRANCH) of this moment
LaunchAgent ==
  /\ pc = "launch"
  /\ li < batch_end
  /\ jobs' = Append(jobs, NewJob(tasks[li + 1], groups[gi], BASE_BRANCH))
  /\ iteration' = iteration + 1
  /\ parallel_pids' = Append(parallel_pids, iteration + 1)
  /\ li' = li + 1
  /\ pc' = IF li + 1 < batch_end THEN "launch" ELSE "poll"
  /\ UNCHANGED <<cfgVars, libVars, prd, all_tasks, groups, gi, tasks, batch_num, batch_start,
                 batch_end, branchVars, mergeVars, gitVars, worktree_base, faults, histVars>>

\* the poll loop's verdict on one status file
Settled(n) ==
  CASE jobs[n].status \in {"setting up", "running"} -> FALSE
    [] jobs[n].status \in {"done", "failed"} -> TRUE
    [] OTHER -> ~Alive(n)

AllDone == \A k \in DOMAIN parallel_pids : Settled(parallel_pids[k])

\* the poll loop breaks
PollAllDone ==
  /\ pc = "poll"
  /\ AllDone
  /\ pc' = "wait"
  /\ UNCHANGED <<schedRest, prd, loopVars, branchVars, mergeVars, gitVars,
                 worktree_base, histVars>>

\* variant: no wait after the poll loop
NoWait(pids) == TRUE

\* variant: only the first pid of the batch is waited for
WaitFirstOnly(pids) == pids = <<>> \/ jobs[pids[1]].pc \in {"exited", "dead"}

\* `wait "$pid"` for every pid of the batch
AllExited(pids) == \A k \in DOMAIN pids : ~Alive(pids[k])

WaitAll ==
  /\ pc = "wait"
  /\ AllExited(parallel_pids)
  /\ pc' = "reconcile"
  /\ UNCHANGED <<schedRest, prd, loopVars, branchVars, mergeVars, gitVars,
                 worktree_base, histVars>>

RECURSIVE MarkAll(_, _)
MarkAll(ts, file) ==
  IF ts = <<>> THEN file ELSE MarkAll(Tail(ts), mark_task_complete(Head(ts), file))

\* the jobs the results loop visits: j = 0 .. batch_size - 1
ResultsLoop(pids) == pids

\* the jobs whose log an agent's stderr was appended to
AgentLogged(n) == jobs[n].log \in {"retries", "no commits"}

\* positions of the results loop at which `sed ... "$log_file" | head -20`
\* can be killed by SIGPIPE: failed jobs with a log of arbitrary size
LogDisplayKills(pids) ==
  {k \in DOMAIN pids : jobs[pids[k]].status = "failed" /\ AgentLogged(pids[k])}

\* the results loop of a batch: a job whose status file reads done has its
\* branch (third field of the output file) recorded when non-empty and its
\* task marked complete; the log of a failed job is displayed, and a killed
\* display pipeline ends the scheduler under errexit
ReconcileBatch ==
  /\ pc = "reconcile"
  /\ \E display \in OrFail({"killed"}), stop \in 0..Len(ResultsLoop(parallel_pids)) :
       /\ IF display = "killed"
            THEN stop \in LogDisplayKills(ResultsLoop(parallel_pids))
            ELSE stop = Len(ResultsLoop(parallel_pids))
       /\ Spend(display)
       /\ LET visited == SubSeq(ResultsLoop(parallel_pids), 1, stop)
              doneJobs == SelectSeq(visited, LAMBDA n : jobs[n].status = "done")
              named == SelectSeq(doneJobs, LAMBDA n : jobs[n].output # NoBranch)
              recorded == [k \in DOMAIN named |-> jobs[named[k]].output]
              doneTasks == [k \in DOMAIN doneJobs |-> jobs[doneJobs[k]].task]
          IN  /\ completed_branches' = completed_branches \o recorded
              /\ group_completed_branches' = group_completed_branches \o recorded
              /\ prd' = MarkAll(doneTasks, prd)
              /\ reconLog' = reconLog \cup
                   {[job |-> visited[k], status |-> jobs[visited[k]].status,
                     alive |-> Alive(visited[k]), output |-> jobs[visited[k]].output]
                      : k \in DOMAIN visited}
       /\ batch_start' = IF display = "killed" THEN batch_start ELSE batch_end
       /\ pc' = IF display = "killed" THEN "exiting"
                ELSE IF ReachedMaxIterations(iteration) THEN "integrate"
                ELSE "batch"
  /\ UNCHANGED <<schedEnv, all_tasks, groups, gi, tasks, batch_num, batch_end, li,
                 iteration, parallel_pids, BASE_BRANCH, ORIGINAL_BASE_BRANCH,
                 integration_branches, mergeVars, gitVars, worktree_base, batchLog, integLog,
                 mergeLog, finalLog>>

\* trap 'exit 130' INT TERM HUP: a signal ends the script at any point
Interrupt ==
  /\ pc \notin {"returned", "exiting", "interrupted", "exited", "exited 130"}
  /\ faults < MaxFaults
  /\ faults' = faults + 1
  /\ pc' = "interrupted"
  /\ UNCHANGED <<schedEnv, prd, loopVars, branchVars, mergeVars, gitVars, worktree_base,
                 histVars>>

\* the same test with `rm -rf "$WORKTREE_BASE"` done whatever it says
RemoveAlways(trees) == FALSE

\* `find "$WORKTREE_BASE" -maxdepth 1 -type d -name 'agent-*' -print -quit |
\* grep -q .`: is an agent directory left under WORKTREE_BASE
AgentDirLeft(trees) == \E n \in DOMAIN trees : trees[n] # "none"

\* what the cleanup trap leaves of one worktree directory: `git worktree
\* remove` without -f removes a tree without uncommitted changes and refuses
\* any other, whatever the status pipeline said before
TrapLeaves(wt) == IF wt = "present" THEN {"none", "dirty"} ELSE {wt}

\* the EXIT trap, at every exit of the script: the batch's processes are
\* killed, every worktree without uncommitted changes is removed, and
\* WORKTREE_BASE is removed when no agent-* directory is left under it
cleanup ==
  /\ pc \in {"returned", "exiting", "interrupted"}
  /\ \E left \in [DOMAIN jobs -> {"none"} \cup DirtyTrees] :
       /\ \A n \in DOMAIN jobs : left[n] \in TrapLeaves(jobs[n].worktree)
       /\ jobs' = [n \in DOMAIN jobs |->
                     [(IF Alive(n) THEN Gone(jobs[n], "dead") ELSE jobs[n]) EXCEPT
                        !.worktree = IF worktree_base THEN left[n] ELSE @]]
       /\ worktree_base' = (worktree_base /\ AgentDirLeft(left))
  /\ pc' = IF pc = "interrupted" THEN "exited 130" ELSE "exited"
  /\ UNCHANGED <<cfgVars, faults, prd, loopVars, branchVars, mergeVars, gitVars, histVars,
                 libVars>>

(* ------------------------- integration step ---------------------------- *)
\* [[ yaml ]] && [[ ${#group_completed_branches[@]} -gt 0 ]] && [[ ${#groups[@]} -gt 1 ]]
IntegrationApplies ==
  PRD_SOURCE = "yaml" /\ Len(group_completed_branches) > 0 /\ Len(groups) > 1

\* the branch the integration branch of a group is created from
IntegrationStart == BASE_BRANCH

Decide(outcome, after) ==
  integLog' = Append(integLog, [gi |-> gi, group |-> groups[gi], outcome |-> outcome,
                                base |-> BASE_BRANCH, after |-> after,
                                merged |-> group_completed_branches])

\* git branch "$integration_branch" "$BASE_BRANCH", then git checkout of it
IntegrationBegin ==
  /\ pc = "integrate"
  /\ IF ~IntegrationApplies
       THEN /\ pc' = "group_end"
            /\ Decide("skipped", BASE_BRANCH)
            /\ UNCHANGED <<mi, merge_failed, current_head, gitVars, faults>>
       ELSE \E git \in OrFail({"no branch", "no checkout"}) :
              LET ib == IntegrationBranch(groups[gi])
              IN  /\ Spend(git)
                  /\ IF git = "no branch" \/ Exists(ib) \/ ~Exists(IntegrationStart)
                       THEN /\ pc' = "group_end"
                            /\ Decide("not created", BASE_BRANCH)
                            /\ UNCHANGED <<mi, merge_failed, current_head, gitVars>>
                     ELSE IF git = "no checkout"
                       THEN /\ pc' = "group_end"
                            /\ Decide("not checked out", BASE_BRANCH)
                            /\ merge_failed' = FALSE
                            /\ current_head' = head
                            /\ UNCHANGED <<mi, gitVars>>
                     ELSE /\ pc' = "integ_merge"
                          /\ branches' = AddBranch(branches, ib, branches[IntegrationStart])
                          /\ merge_failed' = FALSE
                          /\ current_head' = head
                          /\ head' = ib
                          /\ mi' = 1
                          /\ UNCHANGED <<merging, unmerged, integLog>>
  /\ UNCHANGED <<schedEnv, prd, loopVars, branchVars, merge_failed_list, still_failed,
                 worktree_base, batchLog, reconLog, mergeLog, finalLog>>

\* one pass of `for branch in "${group_completed_branches[@]}"`: git merge
\* into the checked-out integration branch; a conflict is aborted and ends
\* the loop
IntegrationMerge ==
  /\ pc = "integ_merge"
  /\ mi <= Len(group_completed_branches)
  /\ LET b == group_completed_branches[mi]
     IN  \E outcome \in MergeOutcomes(head, b) :
           /\ Spend(outcome)
           /\ IF outcome = "merged"
                THEN /\ branches' = Merged(branches, head, b)
                     /\ mergeLog' = mergeLog \cup {<<b, head>>}
                     /\ mi' = mi + 1
                     /\ pc' = IF mi + 1 <= Len(group_completed_branches)
                                THEN "integ_merge" ELSE "integ_finish"
                     /\ UNCHANGED merge_failed
                ELSE /\ merge_failed' = TRUE
                     /\ pc' = "integ_finish"
                     /\ UNCHANGED <<branches, mi, mergeLog>>
  /\ UNCHANGED <<schedEnv, prd, loopVars, branchVars, current_head, merge_failed_list,
                 still_failed, head, merging, unmerged, worktree_base, batchLog, integLog, reconLog,
                 finalLog>>

\* what `git rev-parse --abbrev-ref HEAD` prints when HEAD is detached
HeadRef == <<"HEAD", 0>>

\* the branch the primary checkout is on after `git checkout "$name"` that
\* succeeds: HEAD names the commit already checked out, so nothing changes
Checkout(name, at) == IF name = HeadRef THEN at ELSE name

\* "Return to original HEAD": git checkout "$current_head" when
\* `git symbolic-ref --short HEAD` had named a branch, and
\* git checkout "$ORIGINAL_BASE_BRANCH" when it had printed nothing
ReturnToHead(cur, orig, at) == IF cur # NoBranch THEN Checkout(cur, at) ELSE Checkout(orig, at)

\* variant: BASE_BRANCH is not advanced
KeepBase(ib) == BASE_BRANCH

\* the base branch the next group starts from after a successful integration
NextBase(ib) == ib

\* back to the original HEAD; BASE_BRANCH advances to the integration branch,
\* or the integration branch is deleted after a conflict
IntegrationEnd ==
  /\ pc = "integ_finish"
  /\ head' = ReturnToHead(current_head, ORIGINAL_BASE_BRANCH, head)
  /\ LET ib == IntegrationBranch(groups[gi])
     IN  IF ~merge_failed
           THEN /\ BASE_BRANCH' = NextBase(ib)
                /\ integration_branches' = Append(integration_branches, ib)
                /\ Decide("advanced", NextBase(ib))
                /\ UNCHANGED branches
           ELSE /\ branches' = DelBranch(branches, ib)
                /\ Decide("failed", BASE_BRANCH)
                /\ UNCHANGED <<BASE_BRANCH, integration_branches>>
  /\ pc' = "group_end"
  /\ UNCHANGED <<schedRest, prd, loopVars, ORIGINAL_BASE_BRANCH, completed_branches,
                 group_completed_branches, mergeVars, merging, unmerged, worktree_base,
                 batchLog, reconLog, mergeLog, finalLog>>

\* the iteration ceiling at the foot of the group loop
GroupEnd ==
  /\ pc = "group_end"
  /\ IF ReachedMaxIterations(iteration)
       THEN pc' = "teardown" /\ UNCHANGED gi
       ELSE pc' = "group" /\ gi' = gi + 1
  /\ UNCHANGED <<schedRest, prd, all_tasks, groups, tasks, batch_num, batch_start,
                 batch_end, li, iteration, parallel_pids, branchVars, mergeVars,
                 gitVars, worktree_base, histVars>>

\* WORKTREE_BASE is removed unless an agent-* directory is left under it
TeardownWorktreeBase ==
  /\ pc = "teardown"
  /\ worktree_base' = AgentDirLeft([n \in DOMAIN jobs |-> jobs[n].worktree])
  /\ pc' = "final"
  /\ UNCHANGED <<schedRest, prd, loopVars, branchVars, mergeVars, gitVars, histVars>>

(* ------------------------ final reconciliation ------------------------- *)
\* git refuses to delete a branch that a worktree has checked out
CheckedOut(b) == \E n \in DOMAIN jobs : AgentBranch(n) = b /\ jobs[n].worktree # "none"

\* git branch -d: refuses a branch that is not merged into HEAD
DeleteIfMerged(bs, b) ==
  IF b \in DOMAIN bs /\ bs[b] \subseteq bs[head] /\ ~CheckedOut(b) THEN DelBranch(bs, b) ELSE bs

\* git branch -D of every name of a list
RECURSIVE DeleteAll(_, _)
DeleteAll(bs, names) ==
  IF names = <<>> THEN bs
  ELSE DeleteAll(IF CheckedOut(Head(names)) THEN bs ELSE DelBranch(bs, Head(names)),
                 Tail(names))

\* `if [[ ${#completed_branches[@]} -gt 0 ]]`, CREATE_PR, and the checkout
\* of the original base branch
FinalBegin ==
  /\ pc = "final"
  /\ IF Len(completed_branches) = 0 \/ CREATE_PR
       THEN pc' = "returned" /\ UNCHANGED <<head, mi, merge_failed_list, still_failed, faults>>
       ELSE \E git \in OrFail({"no checkout"}) :
              /\ Spend(git)
              /\ IF git # "ok"
                   THEN pc' = "returned" /\ UNCHANGED <<head, mi, merge_failed_list, still_failed>>
                   ELSE /\ head' = ORIGINAL_BASE_BRANCH
                        /\ mi' = 1
                        /\ merge_failed_list' = <<>>
                        /\ still_failed' = <<>>
                        /\ pc' = IF Len(integration_branches) > 0
                                   THEN "final_integration" ELSE "direct_merge"
  /\ UNCHANGED <<schedEnv, prd, loopVars, branchVars, merge_failed, current_head,
                 branches, merging, unmerged, worktree_base, histVars>>

\* the last integration branch is merged into the original base; on success
\* every integration branch and every completed branch is deleted (-D)
FinalIntegrationMerge ==
  /\ pc = "final_integration"
  /\ LET final_integration == integration_branches[Len(integration_branches)]
     IN  \E outcome \in MergeOutcomes(head, final_integration) :
           /\ Spend(outcome)
           /\ branches' = IF outcome = "merged"
                            THEN DeleteAll(DeleteAll(Merged(branches, head, final_integration),
                                                     integration_branches),
                                           completed_branches)
                            ELSE branches
           /\ mergeLog' = IF outcome = "merged"
                            THEN mergeLog \cup {<<final_integration, head>>} ELSE mergeLog
  /\ pc' = "returned"
  /\ UNCHANGED <<schedEnv, prd, loopVars, branchVars, mergeVars, head, merging, unmerged,
                 worktree_base, batchLog, integLog, reconLog, finalLog>>

\* one entry of the final reconciliation's history: the loop's branch, what
\* was tried (a merge of the direct loop, a retried merge, a resolution pass),
\* the branch whose merge it acted on, and how it ended
Attempt(phase, b, on, outcome) == [phase |-> phase, branch |-> b, on |-> on, outcome |-> outcome]

\* one pass of the direct merge loop over completed_branches
DirectMerge ==
  /\ pc = "direct_merge"
  /\ LET b == completed_branches[mi]
         failed == Append(merge_failed_list, b)
         last == mi = Len(completed_branches)
     IN  /\ IF merging # NoBranch
              THEN \* a merge is in progress: git merge refuses
                   /\ merge_failed_list' = failed
                   /\ finalLog' = Append(finalLog, Attempt("direct", b, b, "busy"))
                   /\ UNCHANGED <<branches, merging, unmerged, faults, mergeLog>>
              ELSE \E outcome \in MergeOutcomes(head, b) :
                     /\ Spend(outcome)
                     /\ finalLog' = Append(finalLog, Attempt("direct", b, b, outcome))
                     /\ CASE outcome = "merged" ->
                               /\ branches' = DeleteIfMerged(Merged(branches, head, b), b)
                               /\ mergeLog' = mergeLog \cup {<<b, head>>}
                               /\ UNCHANGED <<merge_failed_list, merging, unmerged>>
                          [] outcome = "conflict" ->
                               /\ merging' = b
                               /\ unmerged' = TRUE
                               /\ merge_failed_list' = failed
                               /\ UNCHANGED <<branches, mergeLog>>
                          [] outcome = "refused" ->
                               /\ merge_failed_list' = failed
                               /\ UNCHANGED <<branches, merging, unmerged, mergeLog>>
         /\ mi' = IF last THEN 1 ELSE mi + 1
         /\ pc' = IF ~last THEN "direct_merge"
                  ELSE IF Len(merge_failed_list') > 0 THEN "resolve" ELSE "returned"
  /\ UNCHANGED <<schedEnv, prd, loopVars, branchVars, merge_failed, current_head,
                 still_failed, head, worktree_base, batchLog, integLog, reconLog>>

\* what the agent asked to resolve a conflict leaves behind
Resolutions == {"committed", "staged", "unresolved"}

\* one pass of the resolution loop over merge_failed.  The agent command is
\* a simple command of the loop body: its non-zero exit ends
\* run_parallel_tasks under errexit with the merge left as it is.
ResolveConflict ==
  /\ pc = "resolve"
  /\ LET b == merge_failed_list[mi]
         next == IF mi = Len(merge_failed_list) THEN "returned" ELSE "resolve"
     IN  IF ~unmerged
           THEN \* no conflicted file: git merge --abort, then the merge is retried
                \E outcome \in MergeOutcomes(head, b) :
                  /\ Spend(outcome)
                  /\ finalLog' = Append(finalLog, Attempt("retry", b, b, outcome))
                  /\ merging' = NoBranch
                  /\ unmerged' = FALSE
                  /\ pc' = next
                  /\ IF outcome = "merged"
                       THEN /\ branches' = DeleteIfMerged(Merged(branches, head, b), b)
                            /\ mergeLog' = mergeLog \cup {<<b, head>>}
                            /\ UNCHANGED still_failed
                       ELSE /\ still_failed' = Append(still_failed, b)
                            /\ UNCHANGED <<branches, mergeLog>>
           ELSE \E ai \in Resolutions \cup (OrFail({"non-zero"}) \ {"ok"}) :
                  /\ Spend(IF ai = "non-zero" THEN ai ELSE "ok")
                  /\ finalLog' = Append(finalLog, Attempt("ai", b, merging, ai))
                  /\ pc' = IF ai = "non-zero" THEN "exiting" ELSE next
                  /\ CASE ai = "committed" ->
                         /\ branches' = DeleteIfMerged(Merged(branches, head, merging), b)
                         /\ mergeLog' = mergeLog \cup {<<merging, head>>}
                         /\ merging' = NoBranch
                         /\ unmerged' = FALSE
                         /\ UNCHANGED still_failed
                    [] ai = "staged" ->
                         /\ branches' = DeleteIfMerged(branches, b)
                         /\ unmerged' = FALSE
                         /\ UNCHANGED <<merging, still_failed, mergeLog>>
                    [] ai = "unresolved" ->
                         /\ still_failed' = Append(still_failed, b)
                         /\ merging' = NoBranch
                         /\ unmerged' = FALSE
                         /\ UNCHANGED <<branches, mergeLog>>
                    [] ai = "non-zero" ->
                         UNCHANGED <<branches, merging, unmerged, still_failed, mergeLog>>
  /\ mi' = mi + 1
  /\ UNCHANGED <<schedEnv, prd, loopVars, branchVars, merge_failed, current_head,
                 merge_failed_list, head, worktree_base, batchLog, integLog, reconLog>>

(* --------------------------- specification ----------------------------- *)
Next ==
  \/ Start
  \/ GroupStart
  \/ BatchBegin
  \/ LaunchAgent
  \/ PollAllDone
  \/ WaitAll
  \/ ReconcileBatch
  \/ Interrupt
  \/ cleanup
  \/ IntegrationBegin
  \/ IntegrationMerge
  \/ IntegrationEnd
  \/ GroupEnd
  \/ TeardownWorktreeBase
  \/ FinalBegin
  \/ FinalIntegrationMerge
  \/ DirectMerge
  \/ ResolveConflict
  \/ JobStep

Spec == Init /\ [][Next]_vars

\* the run under a fair scheduler: a job process that can take a step takes
\* one (every agent invocation returns or its process exits), and the
\* script goes on whenever its next statement can run.  A signal is never
\* owed to the run.
SpecLive ==
  /\ Spec
  /\ WF_vars(JobStep)
  /\ WF_vars(PollAllDone)
  /\ WF_vars(WaitAll)
  /\ WF_vars(ReconcileBatch)

(* ----------------- operations taken on their own --------------------- *)
\* the scheduler is not running: nothing launched, the script has exited
Standalone ==
  /\ PRD_SOURCE = "markdown"
  /\ \E c \in {CHOOSE c \in Configs : TRUE} :
       /\ MAX_PARALLEL = c.par
       /\ MAX_ITERATIONS = c.iter
       /\ CREATE_PR = c.pr
  /\ prd = <<>>
  /\ pc = "exited"
  /\ all_tasks = <<>> /\ groups = <<>> /\ gi = 1 /\ tasks = <<>>
  /\ batch_num = 0 /\ batch_start = 0 /\ batch_end = 0 /\ li = 0
  /\ iteration = 0 /\ parallel_pids = <<>>
  /\ BASE_BRANCH = OrigBase /\ ORIGINAL_BASE_BRANCH = NoBranch
  /\ completed_branches = <<>> /\ group_completed_branches = <<>>
  /\ integration_branches = <<>>
  /\ mi = 0 /\ merge_failed = FALSE /\ current_head = NoBranch
  /\ merge_failed_list = <<>> /\ still_failed = <<>>
  /\ jobs = <<>>
  /\ branches = [b \in {OrigBase} |-> {}]
  /\ head = OrigBase /\ merging = NoBranch /\ unmerged = FALSE
  /\ worktree_base = FALSE
  /\ faults = 0
  /\ batchLog = <<>> /\ integLog = <<>> /\ reconLog = {} /\ mergeLog = {}
  /\ finalLog = <<>>

mainVars == <<cfgVars, prd, pc, loopVars, branchVars, mergeVars, jobs, gitVars,
              worktree_base, faults, histVars>>

(* ---------------------- worktree cleanup, twice ------------------------ *)
\* what an agent-N directory under WORKTREE_BASE can be: absent, a worktree
\* without uncommitted changes, or a worktree with some
TreeStates == {"none", "clean"} \cup DirtyTrees

\* what the cleanup calls act on: the agent-N directories, WORKTREE_BASE,
\* and the agent branches of the repository
Disk(c) == [trees |-> c.trees, base |-> c.base, branches |-> c.branches]

CleanupInit ==
  /\ Standalone
  /\ rt = [pc |-> "none"] /\ bo = [called |-> FALSE] /\ md = [type |-> "none"]
  /\ ig = [pc |-> "none"]
  /\ pt = [pc |-> "none"] /\ gh = [pc |-> "none"] /\ nm = [iteration |-> 0]
  /\ \E t \in [1..MaxWorktrees -> TreeStates], b \in BOOLEAN,
        brs \in SUBSET (1..MaxWorktrees) :
       /\ (\E i \in 1..MaxWorktrees : t[i] # "none") => b
       /\ cw = [calls |-> 0, op |-> <<"none", 0>>, trees |-> t, base |-> b,
                branches |-> brs, first |-> [trees |-> t, base |-> b, branches |-> brs]]

\* a call is the first one, or the repetition of the first one
MayCall(op) == cw.calls = 0 \/ (cw.calls = 1 /\ cw.op = op)

Called(op, disk) ==
  cw' = [calls |-> cw.calls + 1, op |-> op, trees |-> disk.trees, base |-> disk.base,
         branches |-> disk.branches, first |-> IF cw.calls = 0 THEN disk ELSE cw.first]

\* cleanup_agent_worktree "$WORKTREE_BASE/agent-i" "$branch_name"
CallCleanupAgentWorktree(i) ==
  /\ MayCall(<<"cleanup_agent_worktree", i>>)
  /\ \E dirty \in DirtyDetections(cw.trees[i]) :
       Called(<<"cleanup_agent_worktree", i>>,
              [Disk(cw) EXCEPT
                 !.trees[i] = cleanup_agent_worktree(cw.trees[i], cw.trees[i], dirty)])
  /\ UNCHANGED <<mainVars, rt, bo, md, ig, pt, gh, nm>>

\* `git worktree remove "$dir"` without -f: refused on uncommitted changes
WorktreeRemove(tree) == IF tree \in DirtyTrees THEN tree ELSE "none"

\* the worktree part of the cleanup trap: nothing when WORKTREE_BASE is not a
\* directory; else every agent-* directory goes through the status pipeline
\* and, when not found dirty, through `git worktree remove`; then
\* WORKTREE_BASE is removed if no agent-* directory is left
TrapWorktrees(disk, found) ==
  IF ~disk.base THEN disk
  ELSE LET left == [i \in DOMAIN disk.trees |->
                      IF found[i] THEN disk.trees[i] ELSE WorktreeRemove(disk.trees[i])]
       IN  [disk EXCEPT !.trees = left,
                        !.base = AgentDirLeft(left)]

CallCleanup ==
  /\ MayCall(<<"cleanup", 0>>)
  /\ \E found \in [1..MaxWorktrees -> BOOLEAN] :
       /\ \A i \in 1..MaxWorktrees : found[i] \in DirtyDetections(cw.trees[i])
       /\ Called(<<"cleanup", 0>>, TrapWorktrees(Disk(cw), found))
  /\ UNCHANGED <<mainVars, rt, bo, md, ig, pt, gh, nm>>

NextCleanup ==
  \/ \E i \in 1..MaxWorktrees : CallCleanupAgentWorktree(i)
  \/ CallCleanup

SpecCleanup == CleanupInit /\ [][NextCleanup]_vars

(* ------------------------------ retry.ts ------------------------------- *)
\* retryDelay * 1000, maxDelay * 1000
MsPerSecond == 1000
\* maxDelay = 60 when the option is not given
DefaultMaxDelay == 60

\* Math.pow(2, n) for n >= 0
RECURSIVE Pow2(_)
Pow2(n) == IF n = 0 THEN 1 ELSE 2 * Pow2(n - 1)

\* the delay left as it is, not capped
NoCap(a, b) == a

\* Math.max where Math.min is meant
MathMax(a, b) == IF a <= b THEN b ELSE a

\* Math.min
MathMin(a, b) == IF a <= b THEN a ELSE b

\* calculateBackoffDelay, with Math.random() = random / JitterSteps: the
\* capped exponential delay, plus delay * 0.25 * Math.random() when useJitter,
\* then Math.floor
calculateBackoffDelay(attempt, baseDelayMs, maxDelayMs, useJitter, random) ==
  LET delay == MathMin(baseDelayMs * Pow2(attempt - 1), maxDelayMs)
  IN  IF useJitter THEN (delay * 4 * JitterSteps + delay * random) \div (4 * JitterSteps)
      ELSE delay

Randoms == 0..(JitterSteps - 1)

\* `let lastError: Error | null = null`
NoError == [class |-> "null", message |-> <<>>, fresh |-> FALSE, of |-> 0]

\* the texts isRetryableError finds in a message: /rate limit/i (two of its
\* spellings), /rate_limit/i, /hit your limit/i, /quota/i,
\* /too many requests/i, /429/, /timeout/i, /network/i, /connection/i,
\* /ECONNRESET/, /ETIMEDOUT/, /ENOTFOUND/, /overloaded/i
RetryablePatterns ==
  {"rate limit", "Rate Limit", "rate_limit", "hit your limit", "quota", "too many requests",
   "429", "timeout", "network", "connection", "ECONNRESET", "ETIMEDOUT", "ENOTFOUND",
   "overloaded"}

\* retryablePatterns.some((pattern) => pattern.test(error)), for a message
\* given as its sequence of parts
isRetryableError(error) == \E i \in DOMAIN error : error[i] \in RetryablePatterns

\* what an error message can say: a text a pattern matches, and one none
\* matches (/ECONNRESET/ is case-sensitive)
ErrorTexts == {"Rate Limit", "econnreset"}

\* what the k-th invocation of fn can reject with: an Error object, or a
\* value that is no Error (a string); `of` tells the values of different
\* invocations apart
Throwables(k) ==
  {[class |-> c, message |-> <<t>>, fresh |-> FALSE, of |-> k] :
     c \in {"Error", "string"}, t \in ErrorTexts}

\* error instanceof Error ? error : new Error(String(error))
ToError(error) ==
  IF error.class = "Error" THEN error
  ELSE [class |-> "Error", message |-> error.message, fresh |-> TRUE, of |-> error.of]

\* new Error("All retry attempts failed")
AllFailed ==
  [class |-> "Error", message |-> <<"All retry attempts failed">>, fresh |-> TRUE, of |-> 0]

\* the outcomes of the k-th invocation of fn
Outcomes(k) ==
  {[ok |-> TRUE, value |-> k, thrown |-> NoError]} \cup
  {[ok |-> FALSE, value |-> 0, thrown |-> e] : e \in Throwables(k)}

\* the options of a call, defaults applied; delays in seconds
RetryOptions ==
  [maxRetries : 0..MaxRetries, retryDelay : 0..MaxRetryDelay,
   exponentialBackoff : BOOLEAN, maxDelay : (0..MaxRetryDelay) \cup {DefaultMaxDelay},
   jitter : BOOLEAN]

RetryInit ==
  /\ Standalone
  /\ cw = [calls |-> 0] /\ bo = [called |-> FALSE] /\ md = [type |-> "none"]
  /\ ig = [pc |-> "none"]
  /\ pt = [pc |-> "none"] /\ gh = [pc |-> "none"] /\ nm = [iteration |-> 0]
  /\ \E o \in RetryOptions :
       rt = [pc |-> "loop", options |-> o, attempt |-> 1, lastError |-> NoError,
             invoked |-> <<>>, retried |-> <<>>, slept |-> <<>>, settled |-> "pending",
             value |-> 0, reason |-> NoError]

\* variant: a retry follows only an error that isRetryableError accepts
RetryableOnly(attempt, maxRetries, errorMsg) ==
  attempt < maxRetries /\ isRetryableError(errorMsg)

\* variant: the callback and the sleep follow the last attempt too
AfterLastToo(attempt, maxRetries, errorMsg) == attempt <= maxRetries

\* if (attempt < maxRetries), in the catch block, where errorMsg is
\* lastError.message
RetryFollows(attempt, maxRetries, errorMsg) == attempt < maxRetries

\* one pass of the for loop: fn is invoked; its value is returned, or its
\* error is kept in lastError and, before the last attempt, the delay is
\* computed and onRetry is called with it
RetryAttempt ==
  /\ rt.pc = "loop"
  /\ rt.attempt <= rt.options.maxRetries
  /\ \E out \in Outcomes(Len(rt.invoked) + 1), random \in Randoms :
       LET o == rt.options
           delayMs == IF o.exponentialBackoff
                        THEN calculateBackoffDelay(rt.attempt, o.retryDelay * MsPerSecond,
                                                   o.maxDelay * MsPerSecond, o.jitter, random)
                        ELSE o.retryDelay * MsPerSecond
           seen == [rt EXCEPT !.invoked = Append(@, out)]
       IN  rt' = IF out.ok
                   THEN [seen EXCEPT !.pc = "done", !.settled = "resolved",
                                     !.value = out.value]
                 ELSE IF RetryFollows(rt.attempt, o.maxRetries, ToError(out.thrown).message)
                   THEN [seen EXCEPT !.pc = "sleep", !.lastError = ToError(out.thrown),
                                     !.retried = Append(@, [attempt |-> rt.attempt,
                                                            error |-> ToError(out.thrown).message,
                                                            delayMs |-> delayMs])]
                 ELSE [seen EXCEPT !.attempt = @ + 1, !.lastError = ToError(out.thrown)]
  /\ UNCHANGED <<mainVars, cw, bo, md, ig, pt, gh, nm>>

\* await sleep(delayMs) is over; attempt++
RetrySleep ==
  /\ rt.pc = "sleep"
  /\ rt' = [rt EXCEPT !.pc = "loop", !.attempt = @ + 1,
                      !.slept = Append(@, rt.retried[Len(rt.retried)].delayMs)]
  /\ UNCHANGED <<mainVars, cw, bo, md, ig, pt, gh, nm>>

\* throw lastError || new Error("All retry attempts failed")
RetryThrow ==
  /\ rt.pc = "loop"
  /\ rt.attempt > rt.options.maxRetries
  /\ rt' = [rt EXCEPT !.pc = "done", !.settled = "rejected",
                      !.reason = IF rt.lastError = NoError THEN AllFailed ELSE rt.lastError]
  /\ UNCHANGED <<mainVars, cw, bo, md, ig, pt, gh, nm>>

NextRetry == RetryAttempt \/ RetrySleep \/ RetryThrow

SpecRetry == RetryInit /\ [][NextRetry]_vars

\* calculateBackoffDelay on its own: the arguments, in milliseconds
BackoffInit ==
  /\ Standalone
  /\ cw = [calls |-> 0] /\ rt = [pc |-> "none"] /\ md = [type |-> "none"]
  /\ ig = [pc |-> "none"]
  /\ pt = [pc |-> "none"] /\ gh = [pc |-> "none"] /\ nm = [iteration |-> 0]
  /\ \E k \in 1..MaxAttempt, b \in 0..MaxRetryDelay, m \in 0..MaxRetryDelay, j \in BOOLEAN :
       bo = [called |-> FALSE, attempt |-> k, baseDelayMs |-> b * MsPerSecond,
             maxDelayMs |-> m * MsPerSecond, useJitter |-> j, delay |-> 0]

CallBackoff ==
  /\ ~bo.called
  /\ \E random \in Randoms :
       bo' = [bo EXCEPT !.called = TRUE,
                        !.delay = calculateBackoffDelay(bo.attempt, bo.baseDelayMs,
                                                        bo.maxDelayMs, bo.useJitter, random)]
  /\ UNCHANGED <<mainVars, cw, rt, md, ig, pt, gh, nm>>

NextBackoff == CallBackoff

SpecBackoff == BackoffInit /\ [][NextBackoff]_vars

\* calculateBackoffDelay for two attempts of one withRetry call, attempt
\* before later: the same delays and jitter setting, a jitter draw each
BackoffPairInit ==
  /\ Standalone
  /\ cw = [calls |-> 0] /\ rt = [pc |-> "none"] /\ md = [type |-> "none"]
  /\ ig = [pc |-> "none"]
  /\ pt = [pc |-> "none"] /\ gh = [pc |-> "none"] /\ nm = [iteration |-> 0]
  /\ \E k \in 1..MaxAttempt, l \in 1..MaxAttempt, b \in 0..MaxRetryDelay,
        m \in (0..MaxRetryDelay) \cup {DefaultMaxDelay}, j \in BOOLEAN :
       /\ k < l
       /\ bo = [called |-> FALSE, attempt |-> k, later |-> l,
                baseDelayMs |-> b * MsPerSecond, maxDelayMs |-> m * MsPerSecond,
                useJitter |-> j, delay |-> 0, laterDelay |-> 0]

CallBackoffPair ==
  /\ ~bo.called
  /\ \E random \in Randoms, laterRandom \in Randoms :
       bo' = [bo EXCEPT !.called = TRUE,
                        !.delay = calculateBackoffDelay(bo.attempt, bo.baseDelayMs,
                                                        bo.maxDelayMs, bo.useJitter, random),
                        !.laterDelay = calculateBackoffDelay(bo.later, bo.baseDelayMs,
                                                             bo.maxDelayMs, bo.useJitter,
                                                             laterRandom)]
  /\ UNCHANGED <<mainVars, cw, rt, md, ig, pt, gh, nm>>

NextBackoffPair == CallBackoffPair

SpecBackoffPair == BackoffPairInit /\ [][NextBackoffPair]_vars

(* --------------------- markdown.ts, markdown-folder.ts ----------------- *)
\* a line is a sequence of pieces: a checkbox prefix with its trailing
\* space, or "t", a run of other characters
OpenBox == "- [ ] "
XBox == "- [x] "
UpperXBox == "- [X] "

LineKinds ==
  {<<>>, <<"t">>, <<OpenBox>>, <<OpenBox, "t">>, <<OpenBox, OpenBox, "t">>,
   <<XBox, "t">>, <<UpperXBox, "t">>}

\* line.match(/^- \[ \] (.+)$/)
IncompleteMatch(line) == Len(line) > 1 /\ line[1] = OpenBox

\* /^- \[x\] /i.test(line)
CompletedTest(line) == Len(line) > 0 /\ line[1] \in {XBox, UpperXBox}

\* line.replace(/^- \[ \] /, "- [x] ")
ReplaceBox(line) ==
  IF Len(line) > 0 /\ line[1] = OpenBox THEN <<XBox>> \o Tail(line) ELSE line

Digits == <<"0", "1", "2", "3", "4", "5", "6", "7", "8", "9">>

\* String(n) for n >= 0
RECURSIVE DecimalString(_)
DecimalString(n) ==
  IF n < 10 THEN <<Digits[n + 1]>>
  ELSE DecimalString(n \div 10) \o <<Digits[(n % 10) + 1]>>

IsDigit(c) == \E d \in DOMAIN Digits : Digits[d] = c

DigitValue(c) == (CHOOSE d \in DOMAIN Digits : Digits[d] = c) - 1

RECURSIVE ParseDigits(_, _)
ParseDigits(str, acc) ==
  IF str = <<>> \/ ~IsDigit(Head(str)) THEN acc
  ELSE ParseDigits(Tail(str), acc * 10 + DigitValue(Head(str)))

\* Number.parseInt(str, 10) of an unsigned string; NaN, which is neither
\* >= 0 nor < lines.length, is given as -1
ParseInt(str) == IF str = <<>> \/ ~IsDigit(Head(str)) THEN -1 ELSE ParseDigits(str, 0)

\* the name of the k-th .md file of the folder, in sorted order; a file name
\* may hold a colon
FileName(k) ==
  IF k = 1 THEN <<"a", ".md">> ELSE <<"a", ":">> \o DecimalString(k) \o <<".md">>

\* the id of the task on line lineNumber: String(i + 1), or
\* `${basename(filePath)}:${lineNumber}` in a folder
createTaskId(type, name, lineNumber) ==
  IF type = "markdown" THEN DecimalString(lineNumber)
  ELSE name \o <<":">> \o DecimalString(lineNumber)

\* id.lastIndexOf(":"), 1-based; 0 when there is no colon
LastColon(id) ==
  IF \E i \in DOMAIN id : id[i] = ":"
    THEN CHOOSE i \in DOMAIN id : id[i] = ":" /\ \A k \in DOMAIN id : id[k] = ":" => k <= i
    ELSE 0

\* parseTaskId: the file name and the line number of an id
parseTaskId(id) ==
  [fileName |-> SubSeq(id, 1, LastColon(id) - 1),
   lineNumber |-> ParseInt(SubSeq(id, LastColon(id) + 1, Len(id)))]

\* the loop of loadCache over the lines of one file
FileTasks(type, file) ==
  LET open == SortedSeq({i \in DOMAIN file.lines : IncompleteMatch(file.lines[i])})
  IN  [k \in DOMAIN open |->
         [id |-> createTaskId(type, file.name, open[k]),
          title |-> Tail(file.lines[open[k]]), completed |-> FALSE]]

RemainingIn(file) == Cardinality({i \in DOMAIN file.lines : IncompleteMatch(file.lines[i])})

CompletedIn(file) == Cardinality({i \in DOMAIN file.lines : CompletedTest(file.lines[i])})

\* loadCache: the tasks and the two counts, over the files in sorted order
RECURSIVE loadCache(_, _)
loadCache(type, files) ==
  IF files = <<>> THEN [tasks |-> <<>>, remaining |-> 0, completed |-> 0]
  ELSE LET rest == loadCache(type, Tail(files))
       IN  [tasks |-> FileTasks(type, Head(files)) \o rest.tasks,
            remaining |-> RemainingIn(Head(files)) + rest.remaining,
            completed |-> CompletedIn(Head(files)) + rest.completed]

\* getCache: the cache if there is one (no file changes without the cache
\* being dropped), else loadCache
getCache(source) ==
  IF source.cache = <<>> THEN loadCache(source.type, source.files) ELSE source.cache[1]

\* variant: the line number used as the index
LineIndexSame(lineNumber) == lineNumber

\* Number.parseInt(id, 10) - 1, lineNumber - 1
LineIndex(lineNumber) == lineNumber - 1

\* the write of markComplete on the lines of one file
MarkLine(lines, lineNumber) ==
  IF LineIndex(lineNumber) >= 0 /\ LineIndex(lineNumber) < Len(lines)
    THEN [lines EXCEPT ![LineIndex(lineNumber) + 1] = ReplaceBox(@)]
    ELSE lines

\* markComplete(id): of a MarkdownTaskSource on its file, of a
\* MarkdownFolderTaskSource on the file the id names
markComplete(type, files, id) ==
  IF type = "markdown"
    THEN [k \in DOMAIN files |-> [files[k] EXCEPT !.lines = MarkLine(@, ParseInt(id))]]
    ELSE [k \in DOMAIN files |->
            IF files[k].name = parseTaskId(id).fileName
              THEN [files[k] EXCEPT !.lines = MarkLine(@, parseTaskId(id).lineNumber)]
              ELSE files[k]]

\* the files a source can be made on: up to MaxLines lines in all, in one
\* file, or cut into up to MaxFiles files of a folder
Cuts(n, nfiles) ==
  {c \in [1..n -> 1..nfiles] :
     /\ \A i, k \in 1..n : i <= k => c[i] <= c[k]
     /\ \A f \in 1..nfiles : \E i \in 1..n : c[i] = f}

Chunk(lines, c, f) ==
  LET at == SortedSeq({i \in DOMAIN lines : c[i] = f})
  IN  [k \in DOMAIN at |-> lines[at[k]]]

TaskSourceInit ==
  /\ Standalone
  /\ cw = [calls |-> 0] /\ rt = [pc |-> "none"] /\ bo = [called |-> FALSE]
  /\ ig = [pc |-> "none"]
  /\ pt = [pc |-> "none"] /\ gh = [pc |-> "none"] /\ nm = [iteration |-> 0]
  /\ \E n \in 1..MaxLines : \E lines \in [1..n -> LineKinds] :
       \/ md = [type |-> "markdown", files |-> <<[name |-> <<>>, lines |-> lines]>>,
                cache |-> <<>>, marked |-> 0, id |-> <<>>, seen |-> <<>>]
       \/ \E nfiles \in 1..MaxFiles : \E c \in Cuts(n, nfiles) :
            md = [type |-> "markdown-folder",
                  files |-> [f \in 1..nfiles |->
                               [name |-> FileName(f), lines |-> Chunk(lines, c, f)]],
                  cache |-> <<>>, marked |-> 0, id |-> <<>>, seen |-> <<>>]

\* getAllTasks, countRemaining and countCompleted, read one after the other
ReadTaskSource ==
  /\ Len(md.seen) = md.marked
  /\ md' = [md EXCEPT !.cache = <<getCache(md)>>, !.seen = Append(@, getCache(md))]
  /\ UNCHANGED <<mainVars, cw, rt, bo, ig, pt, gh, nm>>

\* markComplete(id) for a task getAllTasks returned, and then once more
\* with the same id
CallMarkComplete ==
  /\ Len(md.seen) = md.marked + 1
  /\ md.marked < 2
  /\ \E id \in IF md.marked = 0 THEN {t.id : t \in Range(md.seen[1].tasks)} ELSE {md.id} :
       md' = [md EXCEPT !.files = markComplete(md.type, md.files, id),
                        !.cache = <<>>, !.marked = @ + 1, !.id = id]
  /\ UNCHANGED <<mainVars, cw, rt, bo, ig, pt, gh, nm>>

NextTaskSource == ReadTaskSource \/ CallMarkComplete

SpecTaskSource == TaskSourceInit /\ [][NextTaskSource]_vars

(* -------- the integration steps of a run, taken on their own ---------- *)
\* a branch other than the default one
DevBranch == <<"dev", 0>>

\* where the primary checkout can be when the run starts: on a branch, or
\* on a detached HEAD (NoBranch)
StartingHeads == {OrigBase, DevBranch, NoBranch}

\* --base-branch, or `git rev-parse --abbrev-ref HEAD` when it was not given
\* (NoBranch)
BaseBranchFor(arg, at) ==
  IF arg # NoBranch THEN arg ELSE IF at = NoBranch THEN HeadRef ELSE at

\* a YAML run with several groups, at the foot of its first group
IntegrationInit ==
  /\ Standalone
  /\ cw = [calls |-> 0] /\ rt = [pc |-> "none"] /\ bo = [called |-> FALSE]
  /\ md = [type |-> "none"]
  /\ pt = [pc |-> "none"] /\ gh = [pc |-> "none"] /\ nm = [iteration |-> 0]
  /\ \E at \in StartingHeads, arg \in {NoBranch, OrigBase, DevBranch} :
       ig = [pc |-> "step", group |-> 1, head |-> at, before |-> at,
             BASE_BRANCH |-> BaseBranchFor(arg, at),
             ORIGINAL_BASE_BRANCH |-> BaseBranchFor(arg, at),
             current_head |-> NoBranch, merge_failed |-> FALSE, left |-> 0,
             merging |-> FALSE, made |-> {}]

\* git branch "$integration_branch" "$BASE_BRANCH", git symbolic-ref, then
\* git checkout of the integration branch; the step is skipped when the
\* group completed no branch
StepBegin ==
  /\ ig.pc = "step"
  /\ \E n \in 0..MaxParallel, git \in {"ok", "no branch", "no checkout"} :
       LET ib == IntegrationBranch(ig.group)
           seen == [ig EXCEPT !.before = ig.head]
       IN  IF n = 0 \/ git = "no branch"
             THEN ig' = [seen EXCEPT !.pc = "after"]
           ELSE IF git = "no checkout"
             THEN ig' = [seen EXCEPT !.pc = "after", !.current_head = ig.head,
                                     !.merge_failed = FALSE]
           ELSE ig' = [seen EXCEPT !.pc = "merge", !.current_head = ig.head,
                                   !.merge_failed = FALSE, !.head = Checkout(ib, ig.head),
                                   !.made = @ \cup {ib}, !.left = n]
  /\ UNCHANGED <<mainVars, cw, rt, bo, md, pt, gh, nm>>

\* one pass of the merge loop: git merge, and after a conflict
\* git merge --abort, which ends the merge in progress
StepMerge ==
  /\ ig.pc = "merge"
  /\ \E outcome \in {"merged", "conflict"} :
       IF outcome = "merged"
         THEN ig' = [ig EXCEPT !.left = @ - 1,
                               !.pc = IF ig.left > 1 THEN "merge" ELSE "finish"]
         ELSE ig' = [ig EXCEPT !.merge_failed = TRUE, !.merging = FALSE, !.pc = "finish"]
  /\ UNCHANGED <<mainVars, cw, rt, bo, md, pt, gh, nm>>

\* the return to the original HEAD; then BASE_BRANCH advances, or the
\* integration branch is deleted
StepEnd ==
  /\ ig.pc = "finish"
  /\ LET ib == IntegrationBranch(ig.group)
         back == [ig EXCEPT !.pc = "after",
                            !.head = ReturnToHead(ig.current_head, ig.ORIGINAL_BASE_BRANCH,
                                                  ig.head)]
     IN  IF ~ig.merge_failed
           THEN ig' = [back EXCEPT !.BASE_BRANCH = NextBase(ib)]
           ELSE ig' = [back EXCEPT !.made = @ \ {ib}]
  /\ UNCHANGED <<mainVars, cw, rt, bo, md, pt, gh, nm>>

\* for group in "${groups[@]}": on to the next group
StepNext ==
  /\ ig.pc = "after"
  /\ ig.group < MaxGroups
  /\ ig' = [ig EXCEPT !.pc = "step", !.group = @ + 1]
  /\ UNCHANGED <<mainVars, cw, rt, bo, md, pt, gh, nm>>

NextIntegration == StepBegin \/ StepMerge \/ StepEnd \/ StepNext

SpecIntegration == IntegrationInit /\ [][NextIntegration]_vars

(* ------- the processes of one batch around an interrupt signal -------- *)
\* a batch has been launched: every job is a background subshell of the
\* script, about to create its worktree
TrapInit ==
  /\ Standalone
  /\ cw = [calls |-> 0] /\ rt = [pc |-> "none"] /\ bo = [called |-> FALSE]
  /\ md = [type |-> "none"] /\ ig = [pc |-> "none"] /\ gh = [pc |-> "none"] /\ nm = [iteration |-> 0]
  /\ \E k \in 1..MaxParallel :
       pt = [pc |-> "running",
             procs |-> [n \in 1..k |-> [job |-> "create", agent |-> "none", retry |-> 0,
                                        tree |-> "none", late |-> FALSE]]]

\* a step of the subshell of job n (run_parallel_agent): the worktree is
\* created; the agent command is started in a subshell of its own, inside
\* the worktree, and the job waits for it; cleanup_agent_worktree ends the job
ProcJobStep(n) ==
  LET p == pt.procs[n]
  IN  /\ pt.pc \in {"running", "interrupted"}
      /\ \/ /\ p.job = "create"
            /\ pt' = [pt EXCEPT !.procs[n].job = "loop", !.procs[n].tree = "clean"]
         \/ /\ p.job = "loop"
            /\ p.retry < MAX_RETRIES
            /\ pt' = [pt EXCEPT !.procs[n].job = "waiting", !.procs[n].agent = "running"]
         \/ /\ p.job = "cleanup"
            /\ pt' = [pt EXCEPT !.procs[n].job = "exited",
                                !.procs[n].tree = IF p.tree = "dirty" THEN "dirty" ELSE "none"]
      /\ UNCHANGED <<mainVars, cw, rt, bo, md, ig, gh, nm>>

\* a step of the agent command of job n: it writes in the worktree, or it
\* exits; the job, if it is still there to wait for it, retries or goes on
\* to its cleanup
ProcAgentStep(n) ==
  LET p == pt.procs[n]
  IN  /\ p.agent = "running"
      /\ \/ /\ p.tree # "none"
            /\ pt' = [pt EXCEPT !.procs[n].tree = "dirty"]
         \/ /\ p.tree = "none"
            /\ pt' = [pt EXCEPT !.procs[n].tree = "dirty", !.procs[n].late = TRUE]
         \/ \E again \in BOOLEAN :
              pt' = [pt EXCEPT !.procs[n].agent = "none",
                               !.procs[n].retry = IF p.job = "waiting" THEN @ + 1 ELSE @,
                               !.procs[n].job =
                                  IF p.job # "waiting" THEN @
                                  ELSE IF again /\ p.retry + 1 < MAX_RETRIES THEN "loop"
                                  ELSE "cleanup"]
      /\ UNCHANGED <<mainVars, cw, rt, bo, md, ig, gh, nm>>

\* trap 'exit 130' INT TERM HUP: the signal reaches the script
Signal ==
  /\ pt.pc = "running"
  /\ pt' = [pt EXCEPT !.pc = "interrupted"]
  /\ UNCHANGED <<mainVars, cw, rt, bo, md, ig, gh, nm>>

\* cleanup, run by the EXIT trap: kill "$pid" for every pid of the batch and
\* pkill -P $$ end the job subshells, which are the children of the script;
\* the agent command is a child of a job's subshell and gets no signal.
\* Then every worktree without uncommitted changes is removed.
TrapCleanup ==
  /\ pt.pc = "interrupted"
  /\ pt' = [pt EXCEPT !.pc = "exited 130",
                      !.procs = [n \in DOMAIN pt.procs |->
                         [pt.procs[n] EXCEPT
                            !.job = IF @ = "exited" THEN @ ELSE "killed",
                            !.tree = IF @ = "clean" THEN "none" ELSE @]]]
  /\ UNCHANGED <<mainVars, cw, rt, bo, md, ig, gh, nm>>

NextTrap ==
  \/ \E n \in DOMAIN pt.procs : ProcJobStep(n)
  \/ \E n \in DOMAIN pt.procs : ProcAgentStep(n)
  \/ Signal
  \/ TrapCleanup

SpecTrap == TrapInit /\ [][NextTrap]_vars

(* ------------- the names given to the jobs of a run ------------------- *)
\* cut -c1-50
SlugWidth == 50

\* tr '[:upper:]' '[:lower:]', on one character
ToLower(c) == IF c = "A" THEN "a" ELSE c

\* sed -E 's/[^a-z0-9]+/-/g' on a lower-case text: every run of other
\* characters becomes one "-"
RECURSIVE Dashed(_, _)
Dashed(text, inRun) ==
  IF text = <<>> THEN <<>>
  ELSE IF Head(text) = "a" \/ IsDigit(Head(text))
    THEN <<Head(text)>> \o Dashed(Tail(text), FALSE)
  ELSE IF inRun THEN Dashed(Tail(text), TRUE)
  ELSE <<"-">> \o Dashed(Tail(text), TRUE)

\* sed -E 's/^-|-$//g'
Trimmed(text) ==
  LET a == IF text # <<>> /\ Head(text) = "-" THEN Tail(text) ELSE text
  IN  IF a # <<>> /\ a[Len(a)] = "-" THEN SubSeq(a, 1, Len(a) - 1) ELSE a

\* slugify, on a title given as its characters
slugify(title) ==
  LET s == Trimmed(Dashed([i \in DOMAIN title |-> ToLower(title[i])], FALSE))
  IN  SubSeq(s, 1, IF Len(s) < SlugWidth THEN Len(s) ELSE SlugWidth)

\* variant: the branch is named after the task alone
BranchBySlug(agent_num, task_name) == <<"ralphy/agent-">> \o slugify(task_name)

\* branch_name="ralphy/agent-${agent_num}-$(slugify "$task_name")"
BranchNameOf(agent_num, task_name) ==
  <<"ralphy/agent-">> \o DecimalString(agent_num) \o <<"-">> \o slugify(task_name)

\* worktree_dir="${WORKTREE_BASE}/agent-${agent_num}"
WorktreeDirOf(agent_num) == <<"WORKTREE_BASE/agent-">> \o DecimalString(agent_num)

\* the titles of the tasks: "1 A", "a!" and "A!!", the last two with the
\* same slug, and "a!" also the title of two tasks
TitleTexts == {<<"1", " ", "A">>, <<"a", "!">>, <<"A", "!", "!">>}

NamesInit ==
  /\ Standalone
  /\ cw = [calls |-> 0] /\ rt = [pc |-> "none"] /\ bo = [called |-> FALSE]
  /\ md = [type |-> "none"] /\ ig = [pc |-> "none"]
  /\ pt = [pc |-> "none"] /\ gh = [pc |-> "none"]
  /\ nm = [iteration |-> 0, named |-> <<>>]

\* one pass of the launch loop: agent_num=$((iteration + 1)), iteration++,
\* and the names create_agent_worktree gives the job of some task
LaunchNamed ==
  /\ nm.iteration < MaxAgents
  /\ \E task \in TitleTexts :
       LET agent_num == nm.iteration + 1
       IN  nm' = [iteration |-> nm.iteration + 1,
                  named |-> Append(nm.named, [branch |-> BranchNameOf(agent_num, task),
                                              dir |-> WorktreeDirOf(agent_num)])]
  /\ UNCHANGED <<mainVars, cw, rt, bo, md, ig, pt, gh>>

NextNames == LaunchNamed

SpecNames == NamesInit /\ [][NextNames]_vars

(* ---- the cache of a markdown task source, with writers outside it ---- *)
\* what a task file may hold
CacheContents ==
  {<<<<OpenBox, "t">>>>, <<<<XBox, "t">>>>, <<<<"t">>, <<OpenBox, "t">>>>}

\* variant: the cache is trusted whatever the file's modification time
NeverModified(currentMtime, cachedMtime) == FALSE

\* currentMtime !== this.cache.fileMtime,
\* this.getFileMtime(filePath) !== cachedMtime
Modified(currentMtime, cachedMtime) == currentMtime # cachedMtime

\* a source on one file or on a folder; every file was last written at
\* time 0 and nothing is cached.  md.during holds, per file, what the file
\* held at some moment of the read in progress (or of the last read)
CacheInit ==
  /\ Standalone
  /\ cw = [calls |-> 0] /\ rt = [pc |-> "none"] /\ bo = [called |-> FALSE]
  /\ ig = [pc |-> "none"]
  /\ pt = [pc |-> "none"] /\ gh = [pc |-> "none"] /\ nm = [iteration |-> 0]
  /\ \E type \in {"markdown", "markdown-folder"} :
     \E nfiles \in IF type = "markdown" THEN {1} ELSE 1..MaxFiles :
     \E held \in [1..nfiles -> CacheContents] :
       md = [type |-> type,
             files |-> [f \in 1..nfiles |->
                          [name |-> IF type = "markdown" THEN <<>> ELSE FileName(f),
                           lines |-> held[f], mtime |-> 0]],
             clock |-> 0, cache |-> <<>>, pc |-> "idle", k |-> 1,
             fileMtimes |-> <<>>, entries |-> <<>>,
             during |-> [f \in 1..nfiles |-> {}], seen |-> <<>>, hit |-> FALSE]

\* getAllTasks, getNextTask, countRemaining or countCompleted is called:
\* getCache goes to loadCache when there is no cache, else to the
\* comparison of the modification times
CallGetCache ==
  /\ md.pc = "idle"
  /\ md' = [md EXCEPT !.pc = IF md.cache = <<>> THEN "stat" ELSE "check",
                      !.k = 1, !.fileMtimes = <<>>, !.entries = <<>>,
                      !.during = [f \in DOMAIN md.files |-> {md.files[f].lines}]]
  /\ UNCHANGED <<mainVars, cw, rt, bo, ig, pt, gh, nm>>

\* getCache / isCacheStale: statSync of the next cached file; a different
\* modification time leads to loadCache, and after the last file the cache
\* is what the read returns
CheckMtime ==
  /\ md.pc = "check"
  /\ md' = IF Modified(md.files[md.k].mtime, md.cache[1].fileMtimes[md.k])
             THEN [md EXCEPT !.pc = "stat", !.k = 1]
           ELSE IF md.k = Len(md.files)
             THEN [md EXCEPT !.pc = "idle", !.seen = <<md.cache[1].entries>>, !.hit = TRUE]
           ELSE [md EXCEPT !.k = @ + 1]
  /\ UNCHANGED <<mainVars, cw, rt, bo, ig, pt, gh, nm>>

\* loadCache: getFileMtime of the next file
LoadStat ==
  /\ md.pc = "stat"
  /\ md' = [md EXCEPT !.pc = "read", !.fileMtimes = Append(@, md.files[md.k].mtime)]
  /\ UNCHANGED <<mainVars, cw, rt, bo, ig, pt, gh, nm>>

\* loadCache: readFileNormalized of that file; after the last file the
\* cache is set and returned
LoadRead ==
  /\ md.pc = "read"
  /\ LET entries == Append(md.entries, [name |-> md.files[md.k].name,
                                        lines |-> md.files[md.k].lines])
     IN  md' = IF md.k = Len(md.files)
                 THEN [md EXCEPT !.pc = "idle", !.entries = <<>>, !.fileMtimes = <<>>,
                                 !.cache = <<[entries |-> entries,
                                              fileMtimes |-> md.fileMtimes]>>,
                                 !.seen = <<entries>>, !.hit = FALSE]
               ELSE [md EXCEPT !.pc = "stat", !.k = @ + 1, !.entries = entries]
  /\ UNCHANGED <<mainVars, cw, rt, bo, ig, pt, gh, nm>>

\* another process rewrites a task file, at any moment: the content changes
\* and the modification time is the time of the write
ExternalWrite ==
  /\ md.clock < MaxWrites
  /\ \E f \in DOMAIN md.files : \E lines \in CacheContents \ {md.files[f].lines} :
       md' = [md EXCEPT !.files[f].lines = lines, !.files[f].mtime = md.clock + 1,
                        !.clock = @ + 1,
                        !.during[f] = IF md.pc = "idle" THEN @ ELSE @ \cup {lines}]
  /\ UNCHANGED <<mainVars, cw, rt, bo, ig, pt, gh, nm>>

\* markComplete(id) for a task the last read returned: the cache is
\* dropped, and the file is written when it has the line
MarkCompleteCached ==
  /\ md.pc = "idle"
  /\ md.seen # <<>>
  /\ md.clock < MaxWrites
  /\ \E id \in {t.id : t \in Range(loadCache(md.type, md.seen[1]).tasks)} :
       LET lineNumber == IF md.type = "markdown" THEN ParseInt(id)
                         ELSE parseTaskId(id).lineNumber
           Written(f) ==
             /\ md.type = "markdown" \/ md.files[f].name = parseTaskId(id).fileName
             /\ LineIndex(lineNumber) >= 0
             /\ LineIndex(lineNumber) < Len(md.files[f].lines)
       IN  md' = [md EXCEPT
                    !.files = [f \in DOMAIN md.files |->
                                 IF Written(f)
                                   THEN [md.files[f] EXCEPT
                                           !.lines = MarkLine(@, lineNumber),
                                           !.mtime = md.clock + 1]
                                   ELSE md.files[f]],
                    !.clock = IF \E f \in DOMAIN md.files : Written(f) THEN @ + 1 ELSE @,
                    !.cache = <<>>]
  /\ UNCHANGED <<mainVars, cw, rt, bo, ig, pt, gh, nm>>

NextCache ==
  \/ CallGetCache \/ CheckMtime \/ LoadStat \/ LoadRead
  \/ ExternalWrite \/ MarkCompleteCached

SpecCache == CacheInit /\ [][NextCache]_vars

(* --------------------------- GitHubTaskSource -------------------------- *)
\* const CACHE_TTL_MS = 30_000
CACHE_TTL_MS == 30000

\* the time between two readings of Date.now() that differ
TickMs == CACHE_TTL_MS \div TicksPerTtl

\* closedCount: this.cache?.closedCount ?? -1
NoClosedCount == -1

\* isCacheValid
isCacheValid(cache, now) ==
  cache # <<>> /\ now - cache[1].lastFetched < CACHE_TTL_MS

\* `${issue.number}:${issue.title}`
IssueId(number) == DecimalString(number) \o <<":", "t">>

\* id.split(":")[0]
FirstField(id) ==
  IF \E i \in DOMAIN id : id[i] = ":"
    THEN SubSeq(id, 1, (CHOOSE i \in DOMAIN id :
                          id[i] = ":" /\ \A k \in 1..(i - 1) : id[k] # ":") - 1)
    ELSE id

\* what the service answers to listForRepo with state "open"
OpenIssues(service) ==
  LET numbers == SortedSeq(service.open)
  IN  [k \in DOMAIN numbers |->
         [id |-> IssueId(numbers[k]), title |-> <<"t">>, completed |-> FALSE]]

\* a source on a repository with some open and no closed issues, at time 0;
\* in the cache openAt and closedAt record when each part was fetched
GitHubInit ==
  /\ Standalone
  /\ cw = [calls |-> 0] /\ rt = [pc |-> "none"] /\ bo = [called |-> FALSE]
  /\ md = [type |-> "none"] /\ ig = [pc |-> "none"]
  /\ pt = [pc |-> "none"] /\ nm = [iteration |-> 0]
  /\ \E n \in 1..MaxIssues :
       gh = [pc |-> "idle", now |-> 0, service |-> [open |-> 1..n, closed |-> 0],
             cache |-> <<>>,
             seen |-> [call |-> "none", value |-> <<>>, age |-> 0, fetched |-> FALSE],
             marked |-> 0]

\* Date.now() moves on
Tick ==
  /\ gh.pc = "idle"
  /\ gh.now < MaxTicks * TickMs
  /\ gh' = [gh EXCEPT !.now = @ + TickMs]
  /\ UNCHANGED <<mainVars, cw, rt, bo, md, ig, pt, nm>>

\* getAllTasks, getNextTask or countRemaining: fetchOpenIssues, from the
\* cache while it is valid, else from the service, keeping the closed count
\* of the cache that is replaced
CallFetchOpenIssues ==
  /\ gh.pc = "idle"
  /\ \E call \in {"getAllTasks", "getNextTask", "countRemaining"} :
       IF isCacheValid(gh.cache, gh.now)
         THEN gh' = [gh EXCEPT !.seen = [call |-> call, value |-> gh.cache[1].openIssues,
                                         age |-> gh.now - gh.cache[1].openAt,
                                         fetched |-> FALSE]]
         ELSE gh' = [gh EXCEPT
                       !.cache = <<[openIssues |-> OpenIssues(gh.service),
                                    closedCount |-> IF gh.cache = <<>> THEN NoClosedCount
                                                    ELSE gh.cache[1].closedCount,
                                    lastFetched |-> gh.now,
                                    openAt |-> gh.now,
                                    closedAt |-> IF gh.cache = <<>> THEN gh.now
                                                 ELSE gh.cache[1].closedAt]>>,
                       !.seen = [call |-> call, value |-> OpenIssues(gh.service),
                                 age |-> 0, fetched |-> TRUE]]
  /\ UNCHANGED <<mainVars, cw, rt, bo, md, ig, pt, nm>>

\* countCompleted: the cached closed count while the cache is valid and
\* holds one, else the service's, stored when there is a cache
CallCountCompleted ==
  /\ gh.pc = "idle"
  /\ IF isCacheValid(gh.cache, gh.now) /\ gh.cache[1].closedCount >= 0
       THEN gh' = [gh EXCEPT !.seen = [call |-> "countCompleted",
                                       value |-> <<gh.cache[1].closedCount>>,
                                       age |-> gh.now - gh.cache[1].closedAt,
                                       fetched |-> FALSE]]
       ELSE gh' = [gh EXCEPT
                     !.cache = IF gh.cache = <<>> THEN <<>>
                               ELSE <<[gh.cache[1] EXCEPT !.closedCount = gh.service.closed,
                                                          !.closedAt = gh.now]>>,
                     !.seen = [call |-> "countCompleted", value |-> <<gh.service.closed>>,
                               age |-> 0, fetched |-> TRUE]]
  /\ UNCHANGED <<mainVars, cw, rt, bo, md, ig, pt, nm>>

\* markComplete(id) for a task the last read of the open issues returned:
\* the issue is closed on the service and the cache is dropped
CallMarkCompleteGitHub ==
  /\ gh.pc = "idle"
  /\ gh.seen.call \in {"getAllTasks", "getNextTask", "countRemaining"}
  /\ \E k \in DOMAIN gh.seen.value :
       LET issueNumber == ParseInt(FirstField(gh.seen.value[k].id))
       IN  /\ issueNumber >= 0
           /\ gh' = [gh EXCEPT
                       !.service = IF issueNumber \in gh.service.open
                                     THEN [open |-> gh.service.open \ {issueNumber},
                                           closed |-> gh.service.closed + 1]
                                     ELSE gh.service,
                       !.cache = <<>>,
                       !.seen = [call |-> "markComplete", value |-> <<>>, age |-> 0,
                                 fetched |-> FALSE],
                       !.marked = @ + 1]
  /\ UNCHANGED <<mainVars, cw, rt, bo, md, ig, pt, nm>>

NextGitHub == Tick \/ CallFetchOpenIssues \/ CallCountCompleted \/ CallMarkCompleteGitHub

SpecGitHub == GitHubInit /\ [][NextGitHub]_vars

(* ------------------------------ claims --------------------------------- *)
\* the line of the task file a job was launched for (titles are distinct)
LineOf(task) == CHOOSE i \in DOMAIN prd : prd[i].title = task

\* every job launched so far has had its batch result read
BetweenBatches == pc \notin {"launch", "poll", "wait", "reconcile", "interrupted", "exited 130"}

JobsFor(i) == {n \in DOMAIN jobs : jobs[n].task = prd[i].title}

\* C1: between batches, a task line has been checked off by the run exactly
\* when a job launched for it ended with status done; a task whose job ended
\* failed or unknown, or that had no job, is not checked off.
C1_CompleteIffDone ==
  BetweenBatches =>
    \A i \in DOMAIN prd :
      (prd[i].completed /\ ~prd[i].pre) <=> (\E n \in JobsFor(i) : jobs[n].status = "done")

\* C2: a job whose agent answered without an error but left no commit ends
\* failed, its task is never checked off, its branch is never recorded as
\* completed and is never the source of a merge.
C2_NoCommitNeverComplete ==
  \A n \in DOMAIN jobs :
    jobs[n].log = "no commits" =>
      /\ jobs[n].status = "failed"
      /\ ~prd[LineOf(jobs[n].task)].completed
      /\ AgentBranch(n) \notin Range(completed_branches)
      /\ AgentBranch(n) \notin Range(group_completed_branches)
      /\ \A m \in mergeLog : m[1] # AgentBranch(n)

\* C3: a job whose status is done ended its retry loop on an attempt whose
\* output was non-empty and held no error event, and its branch has at least
\* one commit beyond its base.
C3_DoneOnlyAfterCleanCommit ==
  \A n \in DOMAIN jobs :
    (jobs[n].status = "done" /\ Alive(n)) =>
      /\ NonEmpty(jobs[n].result)
      /\ ~HasErrorEvent(jobs[n].result)
      /\ CommitCount(jobs[n].branch, jobs[n].base) > 0

StatusMoves ==
  {<<"waiting", "setting up">>, <<"setting up", "running">>, <<"setting up", "failed">>,
   <<"running", "done">>, <<"running", "failed">>}

\* C4: a job starts waiting and its status only moves waiting -> setting up
\* -> running -> done | failed, or setting up -> failed; a status of done or
\* failed never changes.
C4_StatusForward ==
  [][\A n \in DOMAIN jobs' :
       IF n \in DOMAIN jobs
         THEN jobs'[n].status = jobs[n].status
                \/ <<jobs[n].status, jobs'[n].status>> \in StatusMoves
         ELSE jobs'[n].status = "waiting"]_vars

\* a batch in which one job went from setting up to failed, one failed after
\* running and one is done
C4_Witness ==
  \E a, b, c \in DOMAIN jobs :
    /\ jobs[a].status = "done" /\ jobs[a].pc = "exited"
    /\ jobs[b].status = "failed" /\ jobs[b].log = "no worktree"
    /\ jobs[c].status = "failed" /\ jobs[c].log = "retries"

CeilDiv(n, c) == (n + c - 1) \div c

RECURSIVE SumSizes(_)
SumSizes(B) == IF B = <<>> THEN 0 ELSE (Head(B).end - Head(B).start) + SumSizes(Tail(B))

\* C5: without an iteration ceiling, a group of n tasks run with ceiling c is
\* launched in exactly ceil(n / c) batches of 1..c jobs whose sizes sum to n,
\* and task k of the group is launched once, k-th, in the batch covering k.
C5_BatchPartition ==
  (pc = "integrate" /\ MAX_ITERATIONS = 0) =>
    LET c == MAX_PARALLEL
        n == Len(tasks)
        B == SelectSeq(batchLog, LAMBDA b : b.group = gi)
        J == SelectSeq([k \in 1..Len(jobs) |-> k], LAMBDA k : jobs[k].group = groups[gi])
    IN  /\ Len(B) = CeilDiv(n, c)
        /\ \A k \in DOMAIN B : B[k].end - B[k].start \in 1..c
        /\ SumSizes(B) = n
        /\ Len(J) = n
        /\ \A k \in 1..n :
             /\ jobs[J[k]].task = tasks[k]
             /\ batchLog[jobs[J[k]].batch].group = gi
             /\ batchLog[jobs[J[k]].batch].start <= k - 1
             /\ k - 1 < batchLog[jobs[J[k]].batch].end

\* a group of three tasks run with ceiling two: a batch of two, then one
C5_Witness ==
  /\ pc = "integrate" /\ MAX_ITERATIONS = 0
  /\ Len(tasks) = 3 /\ MAX_PARALLEL = 2
  /\ batch_num = 2

AliveJobs == {n \in DOMAIN jobs : Alive(n)}

\* C6: at most MAX_PARALLEL job processes are alive, and every one of them
\* belongs to the batch launched last.
C6_AtMostMaxParallelAlive ==
  /\ Cardinality(AliveJobs) <= MAX_PARALLEL
  /\ \A n \in AliveJobs : jobs[n].batch = batch_num

\* a second batch running at the ceiling
C6_Witness ==
  /\ batch_num >= 2
  /\ MAX_PARALLEL >= 2
  /\ Cardinality(AliveJobs) = MAX_PARALLEL

\* the base branch after a group's integration step, as the step decided it
Decided(e) ==
  IF e.outcome = "advanced" THEN e.after = IntegrationBranch(e.group) ELSE e.after = e.base

\* C7: jobs are launched in ascending group order, and while any job of a
\* group exists, every job of a lower group has exited with a terminal
\* status and that group's integration step has been decided.
C7_GroupBarrier ==
  \A n \in DOMAIN jobs : \A m \in DOMAIN jobs :
    /\ m < n => jobs[m].group <= jobs[n].group
    /\ jobs[m].group < jobs[n].group =>
         /\ ~Alive(m)
         /\ jobs[m].status \in {"done", "failed"}
         /\ \E k \in DOMAIN integLog :
              integLog[k].group = jobs[m].group /\ Decided(integLog[k])

\* a job of the second group running after the first group's integration
\* advanced the base
C7_Witness ==
  \E n \in AliveJobs : \E k \in DOMAIN integLog :
    /\ integLog[k].group < jobs[n].group
    /\ integLog[k].outcome = "advanced"
    /\ jobs[n].status = "running"

\* C8: every result the scheduler read was read after the job's process had
\* exited, and a done job's output file then held its branch name.
C8_ResultsReadAfterExit ==
  \A r \in reconLog :
    /\ ~r.alive
    /\ r.status = "done" => r.output = AgentBranch(r.job)

\* a done job's result has been read, its task checked off and its branch recorded
C8_Witness ==
  \E r \in reconLog :
    /\ r.status = "done"
    /\ prd[LineOf(jobs[r.job].task)].completed
    /\ AgentBranch(r.job) \in Range(completed_branches)

Reconciled(n) == jobs[n].batch < batch_num \/ BetweenBatches

\* C9: in a reconciled batch with a failed job, every other job has exited
\* with a terminal status of its own, and each one that is done has its task
\* checked off and its branch recorded.
C9_SiblingsUnaffected ==
  \A n \in DOMAIN jobs : \A m \in DOMAIN jobs :
    (n # m /\ jobs[n].batch = jobs[m].batch /\ jobs[m].status = "failed" /\ Reconciled(n)) =>
      /\ ~Alive(n)
      /\ jobs[n].status \in {"done", "failed"}
      /\ jobs[n].status = "done" =>
           /\ prd[LineOf(jobs[n].task)].completed
           /\ AgentBranch(n) \in Range(completed_branches)

Contents(names) == UNION {branches[b] : b \in {x \in Range(names) : Exists(x)}}

\* C10: after a group's integration succeeded, its integration branch holds
\* the base it was created from and every completed branch of the group, and
\* every job of the next group has that branch as its base and a branch
\* created from it.
C10_IntegrationChain ==
  \A k \in DOMAIN integLog :
    LET e == integLog[k]
        ib == IntegrationBranch(e.group)
    IN  e.outcome = "advanced" =>
          /\ (Exists(ib) /\ Exists(e.base)) =>
               branches[ib] = branches[e.base] \cup Contents(e.merged)
          /\ \A n \in DOMAIN jobs :
               (e.gi < Len(groups) /\ jobs[n].group = groups[e.gi + 1]) =>
                 /\ jobs[n].base = ib
                 /\ (Exists(ib) /\ Exists(AgentBranch(n))) =>
                      branches[ib] \subseteq branches[AgentBranch(n)]

\* two branches merged into the first group's integration branch, and a job
\* of the next group has committed on a branch created from it
C10_Witness ==
  \E k \in DOMAIN integLog : \E n \in DOMAIN jobs :
    /\ integLog[k].outcome = "advanced"
    /\ Len(integLog[k].merged) = 2
    /\ Exists(IntegrationBranch(integLog[k].group))
    /\ Cardinality(branches[IntegrationBranch(integLog[k].group)]) = 2
    /\ jobs[n].group = groups[integLog[k].gi + 1]
    /\ Exists(AgentBranch(n))
    /\ n \in branches[AgentBranch(n)]

\* the branches merged so far into a target branch
MergedInto(t) == {m[1] : m \in {x \in mergeLog : x[2] = t}}

\* C11: when a merge into a group's integration branch fails, the merge is
\* aborted, the branches merged are those before the failing one only, the
\* integration branch is deleted and not tracked, BASE_BRANCH keeps its
\* value, and every job of the next group starts from that base.
C11_FailedIntegrationDiscarded ==
  /\ (pc = "integ_finish" /\ merge_failed) =>
       /\ merging = NoBranch /\ ~unmerged
       /\ MergedInto(IntegrationBranch(groups[gi])) =
            {group_completed_branches[k] : k \in 1..(mi - 1)}
  /\ \A k \in DOMAIN integLog :
       LET e == integLog[k]
           ib == IntegrationBranch(e.group)
       IN  e.outcome = "failed" =>
             /\ ~Exists(ib)
             /\ ib \notin Range(integration_branches)
             /\ e.after = e.base
             /\ (gi = e.gi /\ pc = "group_end") => BASE_BRANCH = e.base
             /\ Cardinality(MergedInto(ib)) < Len(e.merged)
             /\ \A n \in DOMAIN jobs :
                  (e.gi < Len(groups) /\ jobs[n].group = groups[e.gi + 1]) =>
                    jobs[n].base = e.base

\* the second branch of a group conflicted with the first one merged, and a
\* job of the next group has its branch created from the unchanged base
C11_Witness ==
  \E k \in DOMAIN integLog : \E n \in DOMAIN jobs :
    /\ integLog[k].outcome = "failed"
    /\ Len(integLog[k].merged) = 2
    /\ Cardinality(MergedInto(IntegrationBranch(integLog[k].group))) = 1
    /\ jobs[n].group = groups[integLog[k].gi + 1]
    /\ jobs[n].base = integLog[k].base
    /\ Exists(AgentBranch(n))

\* C12: a completed agent branch that has been deleted has its commits in
\* the original base branch; in particular the rollup of the last
\* integration branch deletes no branch that did not feed into it.
C12_DeletedBranchesAreInBase ==
  \A n \in DOMAIN jobs :
    (AgentBranch(n) \in Range(completed_branches) /\ ~Exists(AgentBranch(n))) =>
      n \in branches[ORIGINAL_BASE_BRANCH]

\* the final reconciliation took the direct path and has ended
DirectPathEnded == pc = "returned" /\ finalLog # <<>>

\* what the run printed about a branch: merged, or resolved by the agent
ReportedMerged(b) ==
  \E k \in DOMAIN finalLog :
    finalLog[k].branch = b /\ finalLog[k].outcome \in {"merged", "committed", "staged"}

\* C13: at the end of the final reconciliation without integration branches
\* every completed branch either has its commits in the original base or
\* still exists and is listed as unresolved, never both and never neither;
\* and a branch reported as merged or resolved has its commits in the base.
C13_MergedOrReported ==
  DirectPathEnded =>
    \A n \in DOMAIN jobs :
      AgentBranch(n) \in Range(completed_branches) =>
        /\ (n \in branches[ORIGINAL_BASE_BRANCH])
             # (Exists(AgentBranch(n)) /\ AgentBranch(n) \in Range(still_failed))
        /\ ReportedMerged(AgentBranch(n)) => n \in branches[ORIGINAL_BASE_BRANCH]

\* the merge of a branch into the base stopped on a conflict
Conflicted(b) ==
  \E k \in DOMAIN finalLog :
    finalLog[k].on = b /\ finalLog[k].phase \in {"direct", "retry"} /\ finalLog[k].outcome = "conflict"

\* the resolution passes that acted on the merge of a branch
PassesOn(b) == {k \in DOMAIN finalLog : finalLog[k].phase = "ai" /\ finalLog[k].on = b}

\* C14: at the end of the final reconciliation without integration
\* branches, every completed branch whose merge conflicted has had exactly
\* one resolution pass on its own conflicted merge.
C14_OneResolutionPass ==
  DirectPathEnded =>
    \A b \in Range(completed_branches) : Conflicted(b) => Cardinality(PassesOn(b)) = 1

\* the branches the direct merge loop has attempted, in order
DirectOrder ==
  LET d == SelectSeq(finalLog, LAMBDA e : e.phase = "direct")
  IN  [k \in DOMAIN d |-> d[k].branch]

\* a merge of the branch itself was tried and did not go through
OwnMergeFailed(b) ==
  \E k \in DOMAIN finalLog :
    /\ finalLog[k].branch = b /\ finalLog[k].on = b
    /\ finalLog[k].phase \in {"direct", "retry"}
    /\ finalLog[k].outcome \in {"conflict", "refused"}

\* the direct path of the final reconciliation is over, by return or by exit
DirectPathOver == finalLog # <<>> /\ pc \in {"returned", "exiting", "exited"}

\* C15: the direct merge loop attempts the completed branches in the order
\* they were recorded, and when the reconciliation is over every completed
\* branch has its commits in the base unless a merge of that branch itself
\* conflicted or was refused.
C15_ConflictDoesNotStopOthers ==
  /\ DirectOrder = SubSeq(completed_branches, 1, Len(DirectOrder))
  /\ DirectPathOver =>
       \A n \in DOMAIN jobs :
         AgentBranch(n) \in Range(completed_branches) =>
           (n \in branches[ORIGINAL_BASE_BRANCH] \/ OwnMergeFailed(AgentBranch(n)))

\* the invocations of fn made so far that failed
Failed(k) == ~rt.invoked[k].ok

\* C19: withRetry invokes fn at most maxRetries times; only the last
\* invocation made can have succeeded, and the call then resolves with its
\* value; and when maxRetries invocations have all failed the call rejects
\* with the very value the last invocation threw.
C19_RetryContract ==
  /\ Len(rt.invoked) <= rt.options.maxRetries
  /\ \A k \in 1..(Len(rt.invoked) - 1) : Failed(k)
  /\ rt.settled = "resolved" =>
       /\ ~Failed(Len(rt.invoked))
       /\ rt.value = rt.invoked[Len(rt.invoked)].value
  /\ (rt.settled = "rejected" /\ rt.invoked # <<>>) =>
       /\ Len(rt.invoked) = rt.options.maxRetries
       /\ \A k \in DOMAIN rt.invoked : Failed(k)
       /\ rt.reason = rt.invoked[Len(rt.invoked)].thrown

\* baseDelay * 2^(k-1) for the arguments of the call
Exponential == bo.baseDelayMs * Pow2(bo.attempt - 1)

\* min(maxDelay, baseDelay * 2^(k-1)) for the arguments of the call
CapOrExponential == IF bo.maxDelayMs < Exponential THEN bo.maxDelayMs ELSE Exponential

\* C20 as stated: the delay returned by calculateBackoffDelay is at least
\* baseDelay * 2^(k-1) and at most 1.25 * min(maxDelay, baseDelay * 2^(k-1)).
C20_BackoffBounds ==
  bo.called => (Exponential <= bo.delay /\ 4 * bo.delay <= 5 * CapOrExponential)

\* C20, amended: for delays of whole milliseconds, the delay returned by
\* calculateBackoffDelay is at least min(maxDelay, baseDelay * 2^(k-1)) and
\* at most 1.25 times that.
C20_BackoffBoundsCapped ==
  bo.called => (CapOrExponential <= bo.delay /\ 4 * bo.delay <= 5 * CapOrExponential)

\* a later attempt whose exponential delay is over the cap, with jitter added
C20_Witness ==
  /\ bo.called /\ bo.attempt > 1 /\ bo.useJitter
  /\ bo.maxDelayMs < Exponential
  /\ bo.delay > bo.maxDelayMs

\* baseDelay * 2^(k'-1) for the later attempt of the pair
LaterExponential == bo.baseDelayMs * Pow2(bo.later - 1)

\* C21: for attempts k < k' whose exponential delay baseDelay * 2^(k'-1) is
\* not over maxDelay, the delay calculateBackoffDelay returns for k is at
\* most the one it returns for k', whatever the two jitter draws.
C21_BackoffMonotone ==
  (bo.called /\ LaterExponential <= bo.maxDelayMs) => bo.delay <= bo.laterDelay

\* two attempts under the cap, jitter added to the earlier delay
C21_Witness ==
  /\ bo.called /\ bo.useJitter
  /\ LaterExponential <= bo.maxDelayMs
  /\ bo.delay > Exponential
  /\ bo.laterDelay = LaterExponential

\* the step is an invocation of the agent by job n
Invokes(n) == jobs[n].pc = "agent" /\ jobs'[n] # jobs[n]

\* C22: a job never invokes the agent more than MAX_RETRIES times; an
\* invocation that yields empty output or output with an error event is
\* followed by another invocation or, when it was the MAX_RETRIES-th, by
\* status failed with no branch written; and the task of a job that failed
\* after its retries is not checked off and its branch is not recorded.
C22_RetriesExhaustedFail ==
  [][/\ \A n \in DOMAIN jobs :
          Invokes(n) =>
            /\ jobs[n].attempts < MAX_RETRIES
            /\ (~NonEmpty(jobs'[n].result) \/ HasErrorEvent(jobs'[n].result)) =>
                 \/ /\ jobs'[n].pc = "agent"
                    /\ jobs'[n].attempts < MAX_RETRIES
                    /\ jobs'[n].status = "running"
                 \/ /\ jobs'[n].pc = "cleanup"
                    /\ jobs'[n].attempts = MAX_RETRIES
                    /\ jobs'[n].status = "failed"
                    /\ jobs'[n].output = NoBranch
     /\ \A n \in DOMAIN jobs' :
          jobs'[n].log = "retries" =>
            /\ jobs'[n].status = "failed"
            /\ ~prd'[LineOf(jobs'[n].task)].completed
            /\ AgentBranch(n) \notin Range(completed_branches')]_vars

\* create_agent_worktree of job n failed: no branch or no worktree was made
CreationFailed(n) == jobs[n].log = "no worktree"

\* C23: a job whose branch or worktree creation failed has status failed
\* from then on, never invokes the agent, does not try the creation again,
\* has no branch recorded, and its task is not checked off.
C23_CreationFailureIsFinal ==
  \A n \in DOMAIN jobs :
    CreationFailed(n) =>
      /\ jobs[n].status = "failed"
      /\ jobs[n].pc \in {"return", "exited", "dead"}
      /\ jobs[n].attempts = 0
      /\ jobs[n].worktree = "none"
      /\ jobs[n].output = NoBranch
      /\ AgentBranch(n) \notin Range(completed_branches)
      /\ ~prd[LineOf(jobs[n].task)].completed

\* a sequence without its entries whose id is id
RECURSIVE WithoutId(_, _)
WithoutId(list, id) ==
  IF list = <<>> THEN <<>>
  ELSE IF Head(list).id = id THEN WithoutId(Tail(list), id)
  ELSE <<Head(list)>> \o WithoutId(Tail(list), id)

\* C24: markComplete(id) on a task returned by getAllTasks lowers
\* countRemaining by one, raises countCompleted by one and takes exactly that
\* task out of getAllTasks; a second markComplete with the same id changes
\* none of the three.
C24_MarkCompleteOnce ==
  /\ Len(md.seen) > 1 =>
       /\ md.seen[2].remaining = md.seen[1].remaining - 1
       /\ md.seen[2].completed = md.seen[1].completed + 1
       /\ md.seen[2].tasks = WithoutId(md.seen[1].tasks, md.id)
       /\ Len(md.seen[2].tasks) = Len(md.seen[1].tasks) - 1
  /\ Len(md.seen) > 2 => md.seen[3] = md.seen[2]

\* a folder of two files, a task of the second file marked twice and read
\* after each, another task still open
C24_Witness ==
  /\ md.type = "markdown-folder" /\ Len(md.seen) > 2
  /\ parseTaskId(md.id).fileName = FileName(2)
  /\ md.seen[3].remaining > 0

\* C25: in every step of a run the task file keeps its lines, no line that
\* is checked off becomes unchecked, and the completed count does not fall.
C25_CompletedNeverDecreases ==
  [][/\ DOMAIN prd' = DOMAIN prd
     /\ \A i \in DOMAIN prd : prd[i].completed => prd'[i].completed
     /\ count_completed(prd') >= count_completed(prd)]_vars

\* an interrupted run that had checked off a task and integrated a group
C25_Witness ==
  /\ pc = "exited 130"
  /\ integLog # <<>>
  /\ \E i \in DOMAIN prd : prd[i].completed /\ ~prd[i].pre
  /\ \E i \in DOMAIN prd : prd[i].pre

\* the run was ended by a signal
Interrupted == pc \in {"interrupted", "exited 130"}

\* C26: unless the run is interrupted, the poll loop of every batch ends and
\* the batch is reconciled, and every job launched ends with status done or
\* failed.
C26_BatchCompletes ==
  /\ (pc = "poll") ~> (pc = "reconcile" \/ Interrupted)
  /\ []<>(Interrupted \/ \A n \in DOMAIN jobs : jobs[n].status \in {"done", "failed"})

C27_CheckoutChangesOnlyBetweenJobs ==
  [][/\ head' # head =>
          /\ pc \in {"integrate", "integ_finish", "final"}
          /\ \A n \in DOMAIN jobs : ~Alive(n)
     /\ (pc' = pc /\ jobs' # jobs) => head' = head]_vars

\* the integration branch is checked out in the primary working directory,
\* after jobs of the group built their worktrees, ran and cleaned up
C27_Witness ==
  /\ pc = "integ_merge"
  /\ head = IntegrationBranch(groups[gi])
  /\ head # current_head
  /\ \E n \in DOMAIN jobs : jobs[n].pc = "exited" /\ jobs[n].status = "done"

\* the integration branches that exist and hold a commit the original base
\* branch lacks
UnmergedIntegration ==
  {b \in DOMAIN branches :
     /\ b[1] = "integration-group"
     /\ ~(branches[b] \subseteq branches[ORIGINAL_BASE_BRANCH])}

\* log_info "Integration branches: ${integration_branches[*]}"
ReportedOnInterrupt == Range(integration_branches)

\* C29: the worktree cleanup that ends a job and the cleanup at exit delete
\* no branch, and the cleanup after an interrupt reports every integration
\* branch that is not merged into the original base branch.
C29_CleanupKeepsBranches ==
  [][/\ (\E n \in DOMAIN jobs : jobs[n].pc = "cleanup" /\ jobs'[n].pc = "exited")
          => branches' = branches
     /\ pc' \in {"exited", "exited 130"} => branches' = branches
     /\ pc' = "exited 130" => UnmergedIntegration \subseteq ReportedOnInterrupt]_vars

\* the results loop has read status done for job n
ReadDone(n) == \E r \in reconLog : r.job = n /\ r.status = "done"

\* C30: in an interrupted run, a task line checked off by the run belongs to
\* a job that was read as done before the interrupt, every agent branch that
\* was merged is the branch of such a job, and nothing is checked off or
\* merged after the interrupt.
C30_InterruptCompletesNothing ==
  [][/\ Interrupted' =>
          /\ \A i \in DOMAIN prd' :
               (prd'[i].completed /\ ~prd'[i].pre) =>
                 \E n \in DOMAIN jobs' : jobs'[n].task = prd'[i].title /\ ReadDone(n)'
          /\ \A m \in mergeLog' : \A n \in DOMAIN jobs' :
               m[1] = AgentBranch(n) => ReadDone(n)'
     /\ Interrupted =>
          /\ prd' = prd /\ mergeLog' = mergeLog /\ reconLog' = reconLog]_vars

\* C31: once the cleanup after an interrupt has finished, no agent command
\* of the batch is running and none has written to a worktree that the
\* cleanup had removed.
C31_NoAgentAfterCleanup ==
  pt.pc = "exited 130" =>
    \A n \in DOMAIN pt.procs : pt.procs[n].agent # "running" /\ ~pt.procs[n].late

\* the failed invocations that were not the last one allowed
FailedBeforeLast == {k \in DOMAIN rt.invoked : Failed(k) /\ k < rt.options.maxRetries}

\* C32: onRetry is called once for each failed attempt k < maxRetries, with
\* k, the message of the error of attempt k and the delay that is slept
\* next; the sleep follows the call and attempt k+1 follows the sleep; there
\* is no call and no sleep after a success or after the last failed attempt.
C32_OnRetryOncePerFailure ==
  /\ Len(rt.retried) = Cardinality(FailedBeforeLast)
  /\ \A k \in FailedBeforeLast :
       /\ rt.retried[k].attempt = k
       /\ rt.retried[k].error = rt.invoked[k].thrown.message
  /\ Len(rt.slept) <= Len(rt.retried) /\ Len(rt.retried) <= Len(rt.slept) + 1
  /\ \A k \in DOMAIN rt.slept : rt.slept[k] = rt.retried[k].delayMs
  /\ Len(rt.invoked) <= Len(rt.slept) + 1

\* a call rejected after three failed attempts, two callbacks and two
\* sleeps of some length
C32_Witness ==
  /\ rt.settled = "rejected"
  /\ Len(rt.invoked) = 3 /\ Len(rt.retried) = 2 /\ Len(rt.slept) = 2
  /\ rt.slept[2] > 0

\* C33: no sleep between attempts is longer than maxDelay seconds.
C33_SleepWithinMaxDelay ==
  \A k \in DOMAIN rt.slept : rt.slept[k] <= rt.options.maxDelay * MsPerSecond

\* C34: every failed attempt before the last is followed by a retry, with
\* a delay that the options, the attempt number and a jitter draw give,
\* whatever isRetryableError says of its message; a call is rejected only
\* after maxRetries invocations.
C34_RetryWhateverTheMessage ==
  /\ \A k \in FailedBeforeLast :
       /\ k <= Len(rt.retried)
       /\ \E random \in Randoms :
            rt.retried[k].delayMs =
              IF rt.options.exponentialBackoff
                THEN calculateBackoffDelay(k, rt.options.retryDelay * MsPerSecond,
                                           rt.options.maxDelay * MsPerSecond,
                                           rt.options.jitter, random)
                ELSE rt.options.retryDelay * MsPerSecond
  /\ (rt.settled = "rejected" /\ rt.invoked # <<>>) =>
       Len(rt.invoked) = rt.options.maxRetries

\* a call that succeeded on its second attempt, after an error whose
\* message isRetryableError does not accept and a sleep
C34_Witness ==
  /\ rt.settled = "resolved"
  /\ Len(rt.invoked) = 2 /\ Len(rt.slept) = 1
  /\ ~isRetryableError(rt.invoked[1].thrown.message)
  /\ rt.slept[1] > 0

\* --max-iterations is set and at least that many jobs have been launched
CeilingHit == MAX_ITERATIONS > 0 /\ iteration >= MAX_ITERATIONS

\* C35: once a batch has ended with the ceiling reached, no job is launched
\* any more, in this group or a later one: no batch begins with the ceiling
\* reached, the group loop is left for the final steps, and the
\* integration step of the group has been taken with the branches the group
\* completed.
C35_CeilingStopsLaunching ==
  [][/\ (CeilingHit /\ pc # "launch") => Len(jobs') = Len(jobs) /\ gi' = gi
     /\ (CeilingHit /\ pc = "group_end" /\ pc' # pc) => pc' \in {"teardown", "interrupted"}
     /\ (CeilingHit /\ pc' = "teardown") =>
          \E k \in DOMAIN integLog' :
            integLog'[k].gi = gi /\ integLog'[k].merged = group_completed_branches]_vars

\* the ceiling was reached in the first of two groups, whose branch was
\* integrated; the run is in its final reconciliation and tasks are left
C35_Witness ==
  /\ CeilingHit
  /\ pc = "final"
  /\ gi = 1 /\ Len(groups) > 1
  /\ \E k \in DOMAIN integLog : integLog[k].gi = 1 /\ integLog[k].outcome = "advanced"
  /\ \E i \in DOMAIN prd : ~prd[i].completed

\* C36: with --max-iterations N > 0 a parallel run launches at most N jobs.
C36_AtMostMaxIterationsJobs ==
  MAX_ITERATIONS > 0 => Len(jobs) <= MAX_ITERATIONS

\* C37: no two jobs of a run have the same branch name or the same worktree
\* path, whatever the titles of their tasks.
C37_NamesUnique ==
  \A a, b \in DOMAIN nm.named :
    a # b => nm.named[a].branch # nm.named[b].branch /\ nm.named[a].dir # nm.named[b].dir

\* jobs 1 and 11 were launched, job 1 for "1 A" and job 11 for a task with
\* slug "a", and two jobs for tasks with the same slug
C37_Witness ==
  /\ Len(nm.named) = 11
  /\ nm.named[1].branch = <<"ralphy/agent-", "1", "-", "1", "-", "a">>
  /\ nm.named[11].branch = <<"ralphy/agent-", "1", "1", "-", "a">>
  /\ nm.named[2].branch = <<"ralphy/agent-", "2", "-", "a">>

\* C38: marking a task complete changes the completion flag of that task
\* only: a line whose flag changes in a step carries the title of a job that
\* ended done, for a markdown file and for a YAML file.
C38_MarkChangesOnlyThatTask ==
  [][\A i \in DOMAIN prd :
       prd'[i].completed # prd[i].completed =>
         \E n \in DOMAIN jobs : jobs[n].status = "done" /\ jobs[n].task = prd[i].title]_vars

\* C39: what a read of a markdown source returns is computed, for every
\* file, from content the file held during that read: the tasks and the two
\* counts are those of such content, and this also when the read was
\* answered from the cache.
C39_ReadsAreCurrent ==
  md.type # "none" /\ md.pc = "idle" /\ md.seen # <<>> =>
    \E held \in [DOMAIN md.files -> UNION {md.during[f] : f \in DOMAIN md.files}] :
      /\ \A f \in DOMAIN md.files : held[f] \in md.during[f]
      /\ loadCache(md.type, md.seen[1])
           = loadCache(md.type, [f \in DOMAIN md.files |->
                                   [name |-> md.files[f].name, lines |-> held[f]]])

\* a folder's read was answered from the cache after its second file had
\* been written from outside and reloaded
C39_Witness ==
  /\ md.type = "markdown-folder" /\ md.pc = "idle" /\ md.hit
  /\ Len(md.files) = 2 /\ md.files[2].mtime >= 2
  /\ md.cache # <<>> /\ md.cache[1].fileMtimes[2] = md.files[2].mtime
  /\ md.seen[1][2].lines = md.files[2].lines

\* C40: what a read of a GitHub source returns (the open issues, their
\* number, the closed count) was fetched no more than CACHE_TTL_MS before the
\* read, and the read that follows markComplete fetches.
C40_NeverOlderThanTtl ==
  gh.pc # "none" /\ gh.seen.call \notin {"none", "markComplete"} =>
    gh.seen.age <= CACHE_TTL_MS

\* C18: WORKTREE_BASE is removed only in a step that leaves no agent
\* directory under it, and a worktree directory left in place with
\* uncommitted changes stays, with WORKTREE_BASE, through every later step
\* (the end-of-run teardown and the cleanup trap included).
C18_BaseKeptWithWorktrees ==
  [][/\ (worktree_base /\ ~worktree_base') =>
          \A n \in DOMAIN jobs' : jobs'[n].worktree = "none"
     /\ \A n \in DOMAIN jobs :
          jobs[n].worktree \in DirtyTrees =>
            /\ jobs'[n].worktree = jobs[n].worktree
            /\ worktree_base /\ worktree_base']_vars

\* the script has exited and a dirty worktree is still there, in WORKTREE_BASE
C18_Witness ==
  /\ pc \in {"exited", "exited 130"}
  /\ worktree_base
  /\ \E n \in DOMAIN jobs : jobs[n].worktree \in DirtyTrees

\* C17: a second call of cleanup_agent_worktree on the same worktree, or of
\* the cleanup trap, leaves the agent directories, WORKTREE_BASE and the
\* branches as the first call left them.
C17_CleanupIdempotent == cw.calls = 2 => Disk(cw) = cw.first

\* C16: no step removes a worktree directory that has uncommitted changes:
\* a job's cleanup_agent_worktree does not, and a directory left in place as
\* dirty stays through the teardown and the cleanup trap.
C16_DirtyWorktreeNeverRemoved ==
  [][/\ \A n \in DOMAIN jobs' : ~jobs'[n].lost
     /\ \A n \in DOMAIN jobs :
          jobs[n].worktree \in DirtyTrees => jobs'[n].worktree = jobs[n].worktree]_vars

====
